---- MODULE Spec2Model ----
(***************************************************************************)
(* Position lifecycle of the Paulie trading bots: the late sniper          *)
(* (sniper.py), the adaptive bot (btc_adaptive.py), the liquidity scalper  *)
(* (btc_liquidity.py), the market maker (btc_mm.py) and the weather trader *)
(* (weather_trader.py), with the order gateway of trading.py.              *)
(*                                                                         *)
(* Units: time in seconds, prices in cents, shares in hundredths of a      *)
(* share, money in 1/10000 dollar (cents * hundredths of a share).         *)
(* A market is numbered k >= 1: it opens at (k-1)*INTERVAL and closes at   *)
(* k*INTERVAL; its slug and its condition id are both written k, and 0     *)
(* stands for the empty string.                                            *)
(***************************************************************************)
EXTENDS Integers, Sequences, FiniteSets, TLC

VARIABLES
    now,                    \* int(time.time())
    restarts,               \* process restarts so far
    orders,                 \* the orders the gateway holds, by order id
    buy_attempted,          \* markets for which place_limit_buy has been called
    lastTick,               \* the last handler run: its position before, its external calls
    db,                     \* tracker.db: the saved snapshots
    auto_snipers,           \* sniper._auto_snipers["15m"]
    sessions,               \* sniper._sessions, by condition id
    bot_active,             \* btc_adaptive._bot_active
    bot_stats,              \* btc_adaptive._bot_stats
    adaptive_trade,         \* btc_adaptive._active_trade
    liq_active,             \* btc_liquidity._liq_active
    liq_stats,              \* btc_liquidity._liq_stats
    liq_trade,              \* btc_liquidity._active_trade
    liq_traded_slugs,       \* btc_liquidity._traded_slugs
    liq_frame,              \* _manage_liq_trade suspended at an await: its local t
    mm_active,              \* btc_mm._mm_active
    mm_stats,               \* btc_mm._mm_stats
    mm_session,             \* btc_mm._active_session
    mm_traded_slugs,        \* btc_mm._run_mm_cycle._traded_slugs
    wt_active,              \* weather_trader._active
    wt_stats,               \* weather_trader._stats
    wt_positions,           \* weather_trader._positions["london"]
    wt_market_cache,        \* weather_trader._market_cache["london"]
    wt_forecast_cache,      \* weather_trader._forecast_cache, by target date
    ws_sniper,              \* weather_sniper._weather_snipers[slug], for one event
    today,                  \* the UTC calendar date, as the number of the day
    autocopy_daily,         \* tracker.db: big_trade_count by trader address and date
    copy_orders,            \* the buys the gateway took from the autocopy handler
    copy_trades,            \* database: the rows of table copy_trades
    seen_trades,            \* database: table seen_trades, <<address, transaction hash>>
    handled,                \* the activities passed to _send_notification so far
    polls,                  \* the polls of a trader's activity made so far
    probe                   \* a function of the program applied on its own: arguments and result

sniperVars == <<auto_snipers, sessions>>
adaptiveVars == <<bot_active, bot_stats, adaptive_trade>>
liqVars == <<liq_active, liq_stats, liq_trade, liq_traded_slugs, liq_frame>>
mmVars == <<mm_active, mm_stats, mm_session, mm_traded_slugs>>
wtVars == <<wt_active, wt_stats, wt_positions, wt_market_cache, wt_forecast_cache>>
wsVars == <<ws_sniper>>
pollVars == <<seen_trades, handled, polls>>
copyVars == <<today, autocopy_daily, copy_orders, copy_trades, pollVars>>
probeVars == <<probe>>
vars == <<now, restarts, orders, buy_attempted, lastTick, db, sniperVars, adaptiveVars, liqVars, mmVars, wtVars,
          wsVars, copyVars, probeVars>>

----------------------------------------------------------------------------
\* Bounds of the model

\* the clock runs from 0 to MaxTime
MaxTime == 1560
\* markets 1..MaxMarkets exist
MaxMarkets == 2
\* the gateway takes at most MaxOrders orders, of which at most MaxBuys
\* buys, and refuses further ones
MaxOrders == 4
MaxBuys == 2
\* the process restarts at most MaxRestarts times
MaxRestarts == 1
\* the calendar runs over the days 1..MaxDays
MaxDays == 2
\* the gateway takes at most MaxCopies buys from the autocopy handler
MaxCopies == 3
\* rows of table copy_trades
MaxCopyTrades == 3
\* polls of a trader's activity, and activities in one answer
MaxPolls == 2
MaxFeed == 3

Markets == 1..MaxMarkets

\* The absent value (Python None, a deleted dict entry).
Null == [null |-> TRUE]

\* Mid prices a price query may answer before an entry; 0 is a failed query
\* (None).
Mids == {0, 40, 80, 90}

\* Mid prices a price query may answer at a fill and while a position is held
FillMids == {0, 90}
HeldMids == {0, 80, 90}

----------------------------------------------------------------------------
\* Arithmetic helpers

Min(a, b) == IF a < b THEN a ELSE b
Max(a, b) == IF a > b THEN a ELSE b

\* ceil(n / d) for n >= 0, d > 0
CeilDiv(n, d) == (n + d - 1) \div d

\* Python round(n / d) to an integer: round half to even
RoundDiv(n, d) ==
    LET q == n \div d
        r == n % d
    IN  IF 2 * r < d THEN q
        ELSE IF 2 * r > d THEN q + 1
        ELSE q + (q % 2)

----------------------------------------------------------------------------
\* Markets and their discovery (sniper.find_live_market)

INTERVAL == 900

END_TS(k) == k * INTERVAL

\* the period the clock is in: period_start = (now // interval) * interval
CurrentMarket(t) == (t \div INTERVAL) + 1

\* find_live_market tries the current, previous, next and second-previous
\* window; each request may fail or find no open event, and the first hit
\* is returned.  0 is None.
LiveMarkets(t) ==
    {0} \cup {k \in Markets : (k - CurrentMarket(t)) \in {0, -1, 1, -2}}

----------------------------------------------------------------------------
\* The order gateway (trading.py)

\* What a placement can come to: the order rests in the book ("live"),
\* fills at once ("matched"), or is refused or never sent ("rejected").
PlaceOutcomes == {"live", "matched", "rejected"}

\* A buy that fills at once takes the price of the book, IMPROVEMENT below
\* its limit; a resting order fills at its limit.
IMPROVEMENT == 2

Buys(ords) == {i \in DOMAIN ords : ords[i].side = "BUY"}

\* the outcomes the gateway can still give a buy and a sell: a full book refuses
BuyOutcomesAt(ords) ==
    IF Len(ords) < MaxOrders /\ Cardinality(Buys(ords)) < MaxBuys
    THEN PlaceOutcomes ELSE {"rejected"}

SellOutcomesAt(ords) == IF Len(ords) < MaxOrders THEN PlaceOutcomes ELSE {"rejected"}

MIN_SHARES == 500
MIN_NOTIONAL == 10500

\* place_limit_buy's size, in hundredths of a share, for amount_usdc in
\* cents: ceil(amount * 1.05 / price * 100) / 100, raised to a notional of
\* 1.05 and then to 5 shares.
BuySize(amount, price) ==
    LET s1 == CeilDiv(amount * 105, price)
        s2 == IF s1 * price < MIN_NOTIONAL THEN CeilDiv(MIN_NOTIONAL, price) ELSE s1
    IN  IF s2 < MIN_SHARES THEN MIN_SHARES ELSE s2

\* price <= 0 or price >= 1 is refused locally
ValidPrice(price) == price > 0 /\ price < 100

\* An order as the gateway holds it.
NewOrder(mkt, tok, side, typ, price, size, outcome) ==
    [mkt |-> mkt, tok |-> tok, side |-> side, typ |-> typ, price |-> price,
     size |-> size,
     st |-> outcome,
     fill |-> IF outcome # "matched" THEN 0
              ELSE IF side = "BUY" THEN price - IMPROVEMENT ELSE price,
     epoch |-> restarts]

\* place_limit_buy: the gateway's orders after the call
place_limit_buy(ords, mkt, tok, price, amount, outcome) ==
    IF ValidPrice(price) /\ outcome # "rejected"
    THEN Append(ords, NewOrder(mkt, tok, "BUY", "GTC", price, BuySize(amount, price), outcome))
    ELSE ords

\* the caller's result: an order id, or 0 for None / an empty id
PlacedId(ords, price, outcome) ==
    IF ValidPrice(price) /\ outcome # "rejected" THEN Len(ords) + 1 ELSE 0

\* place_limit_sell posts whatever price it is given
place_limit_sell(ords, mkt, tok, price, size, outcome) ==
    IF outcome # "rejected"
    THEN Append(ords, NewOrder(mkt, tok, "SELL", "GTC", price, size, outcome))
    ELSE ords

SoldId(ords, outcome) ==
    IF outcome # "rejected" THEN Len(ords) + 1 ELSE 0

\* cancel_order: a live order is cancelled when the call goes through
cancel_order(ords, oid, ok) ==
    [ords EXCEPT ![oid] =
        [@ EXCEPT !.st = IF ok /\ @ = "live" THEN "cancelled" ELSE @]]

\* check_order_status: the order's status, or "none" when the query fails
StatusAnswers(ords, oid) == {ords[oid].st, "none"}

NoTick == [h |-> "none"]


\* One external call of a handler run: its name, its argument (an order id or
\* a market) and what came back.
Call(f, a, r) == [f |-> f, a |-> a, r |-> r]

OkFail(ok) == IF ok THEN "ok" ELSE "fail"

\* the markets for which a run called place_limit_buy
Attempts(calls) ==
    {calls[i].a : i \in {j \in DOMAIN calls : calls[j].f = "place_limit_buy"}}

\* A handler run as lastTick keeps it: the handler, the position before the
\* run, whether it called place_limit_buy for a market attempted before, and
\* the external calls in order.
Tick(h, pre, calls) ==
    [h |-> h, pre |-> pre, again |-> Attempts(calls) \cap buy_attempted # {},
     calls |-> calls]

\* Between two instants of the clock each handler runs at most once, in the
\* order of its checker's loop, and the book moves before the handlers run.
Quiet == lastTick.h = "none"

\* the calls of the last run that went to f
CallsTo(f) ==
    IF lastTick.h = "none" THEN {}
    ELSE {i \in DOMAIN lastTick.calls : lastTick.calls[i].f = f}

----------------------------------------------------------------------------
\* Resolution labels

\* the labels the market API may report as a resolution
Labels == {"Up", "Down", "Yes", "No", "1", "0"}

\* str.lower() on a label
Lower(l) ==
    CASE l \in {"Up", "UP"} -> "up" [] l \in {"Down", "DOWN"} -> "down"
      [] l \in {"Yes", "YES"} -> "yes" [] l \in {"No", "NO"} -> "no"
      [] OTHER -> l

\* fetch_market_by_condition: None, or the market's closed flag and resolution
ApiAnswers == {Null} \cup [closed : BOOLEAN, res : Labels \cup {""}]

\* the answer as a run logs it: the declared outcome, or "none"
ApiText(api) ==
    IF api = Null THEN "none"
    ELSE IF api.res = "" THEN "none"
    ELSE IF ~api.closed THEN "open:" \o api.res
    ELSE "closed:" \o api.res

\* the Binance candle of the market's period: "none" when the request fails
BtcAnswers == {"none", "Up", "Down"}

----------------------------------------------------------------------------
\* The late sniper (sniper.py)

\* AutoSniper(...) as start_auto_sniper and load_saved_snipers build it
AutoSniper(wins, losses, total_pnl, total_trades) ==
    [active |-> TRUE, entry_price |-> 85, size_usdc |-> 100,
     stop_loss_cents |-> 10, enter_before_sec |-> 180,
     wins |-> wins, losses |-> losses, total_pnl |-> total_pnl,
     total_trades |-> total_trades,
     current_slug |-> 0, current_cid |-> 0, current_entered |-> FALSE]

\* _save_config: the row of an active sniper, or no row
SaveConfig(a) ==
    IF a # Null /\ a.active
    THEN [wins |-> a.wins, losses |-> a.losses, total_pnl |-> a.total_pnl,
          total_trades |-> a.total_trades]
    ELSE Null

\* load_saved_snipers
LoadSavedSnipers(row) ==
    IF row = Null THEN Null
    ELSE AutoSniper(row.wins, row.losses, row.total_pnl, row.total_trades)

\* SnipeSession(...) as _run_auto_sniper builds it
SnipeSession(a, cid, direction, oid) ==
    [condition_id |-> cid, outcome |-> direction, event_slug |-> cid,
     entry_price |-> a.entry_price, size_usdc |-> a.size_usdc,
     order_id |-> oid, order_status |-> "live",
     fills |-> 0, total_spent |-> 0, total_shares |-> 0,
     active |-> TRUE, stop_loss_cents |-> a.stop_loss_cents,
     error_count |-> 0, market_end_ts |-> END_TS(cid), mid_at_fill |-> 0]

\* get_market_end_timestamp: the close of market k when the event slug ends
\* in the ten digits of its start time, else 0
get_market_end_timestamp(k, dated) == IF dated THEN END_TS(k) ELSE 0

\* SnipeSession(...) as start_manual_snipe builds it, with the entry price,
\* size and stop-loss of the command's defaults
ManualSession(cid, outcome, oid, dated) ==
    [SnipeSession(AutoSniper(0, 0, 0, 0), cid, outcome, oid) EXCEPT
        !.event_slug = IF dated THEN cid ELSE 0,
        !.market_end_ts = get_market_end_timestamp(cid, dated)]

\* what the BTC checks of _run_auto_sniper come to: no data, a move below the
\* minimum, a reversing last minute, a spike, or a direction
SniperSignals == {"nodata", "lowmove", "reversal", "spike", "Up", "Down"}

\* The sign of BTC's move over a market's window as the checks see it: once
\* an order stands for the market, later checks see the same sign.
Directions(ords, mkt) ==
    IF \E i \in DOMAIN ords : ords[i].mkt = mkt
    THEN {ords[i].tok : i \in {j \in DOMAIN ords : ords[j].mkt = mkt}}
    ELSE {"Up", "Down"}

\* the signals that can be seen for market mkt
SniperSignalsAt(ords, mkt) ==
    {x \in SniperSignals : x \in {"Up", "Down"} => x \in Directions(ords, mkt)}

\* _get_sniper_for_session with one sniper: the owner, else any active one
GetSniperForSession(a, s) ==
    IF a # Null /\ (a.current_cid = s.condition_id \/ a.active) THEN a ELSE Null

\* _check_win
check_win(outcome, resolution) ==
    LET res == Lower(resolution)
        out == Lower(outcome)
    IN  \/ out \in {"up", "yes"} /\ res \in {"up", "yes", "1"}
        \/ out \in {"down", "no"} /\ res \in {"down", "no", "0"}

\* the sniper after the slug comparison of _run_auto_sniper
Rolled(a, live) ==
    IF live # a.current_slug
    THEN [a EXCEPT !.current_slug = live, !.current_cid = 0, !.current_entered = FALSE]
    ELSE a

\* _run_auto_sniper reaches its decision: a live market before its close, not
\* yet entered, inside the entry window
SniperDeciding(a, live) ==
    /\ live # 0
    /\ END_TS(live) - now > 0
    /\ ~Rolled(a, live).current_entered
    /\ END_TS(live) - now <= a.enter_before_sec

\* ... and gets as far as the momentum check
SniperPricing(a, live, sig, hasTok) ==
    SniperDeciding(a, live) /\ sig \in {"Up", "Down"} /\ hasTok

\* ... and as far as the order
SniperOrdering(a, live, sig, hasTok, mid) ==
    /\ SniperPricing(a, live, sig, hasTok)
    /\ ~(mid # 0 /\ mid > a.entry_price)
    /\ ~(mid # 0 /\ 2 * mid < a.entry_price)

\* _run_auto_sniper on sniper a: live is what find_live_market returns, sig
\* what the BTC checks come to, hasTok whether the live market carries the
\* token of the direction, mid what fetch_midprice answers, outcome what the
\* gateway does with the order.  The result is the sniper, the sessions and
\* the gateway's orders after the run, and the external calls made.
run_auto_sniper(a, sess, ords, live, sig, hasTok, mid, outcome) ==
    LET a1 == Rolled(a, live)
        oid == PlacedId(ords, a1.entry_price, outcome)
        placed == place_limit_buy(ords, live, sig, a1.entry_price, a1.size_usdc, outcome)
        a2 == [a1 EXCEPT !.current_entered = TRUE, !.current_cid = live,
                         !.total_trades = @ + 1]
        Out(x, ss, oo, cc) == [auto |-> x, sessions |-> ss, orders |-> oo, calls |-> cc]
    IN  IF live = 0 THEN Out(a, sess, ords, <<>>)
        ELSE IF END_TS(live) - now <= 0
        THEN Out([a EXCEPT !.current_slug = 0, !.current_entered = FALSE], sess, ords, <<>>)
        ELSE IF ~SniperDeciding(a, live) THEN Out(a1, sess, ords, <<>>)
        ELSE IF sig \in {"nodata", "lowmove", "reversal"} THEN Out(a1, sess, ords, <<>>)
        ELSE IF sig = "spike"
        THEN Out([a1 EXCEPT !.current_entered = TRUE], sess, ords, <<>>)
        ELSE IF ~hasTok THEN Out(a1, sess, ords, <<>>)
        ELSE IF mid # 0 /\ mid > a1.entry_price
        THEN Out([a1 EXCEPT !.current_entered = TRUE], sess, ords, <<>>)
        ELSE IF ~SniperOrdering(a, live, sig, hasTok, mid) THEN Out(a1, sess, ords, <<>>)
        ELSE IF oid = 0
        THEN Out(a1, sess, placed, <<Call("place_limit_buy", live, outcome)>>)
        ELSE Out(a2, [sess EXCEPT ![live] = SnipeSession(a1, live, sig, oid)],
                 placed, <<Call("place_limit_buy", live, outcome)>>)

\* the fill branch of _check_session
SessionFilled(s, fill_mid) ==
    [s EXCEPT !.order_status = "matched",
              !.fills = @ + 1,
              !.total_spent = @ + s.size_usdc * 100,
              !.total_shares = @ + RoundDiv(100 * s.size_usdc, s.entry_price),
              !.mid_at_fill = fill_mid]

\* the stop-loss condition of _check_session on the queried mid
SniperStopLoss(s, mid) ==
    /\ s.order_status = "matched"
    /\ s.stop_loss_cents > 0
    /\ s.mid_at_fill > 0
    /\ mid > 0
    /\ s.mid_at_fill - mid >= s.stop_loss_cents

\* the BTC candle is consulted as soon as the resolution block runs, without
\* the 120 seconds of grace
FallbackDueAtOnce(s) == now - s.market_end_ts > 15

\* _check_session consults the BTC candle: more than 120 seconds after the close
FallbackDue(s) == now - s.market_end_ts > 120

\* _check_session force-resolves: more than 600 seconds after the close
ForceDue(s) == now - s.market_end_ts > 600

\* how _check_session resolves a filled session: "API", "BTC", "TIMEOUT", or
\* "" for not yet
ResolvedVia(s, api, btc) ==
    IF api # Null /\ api.closed /\ api.res # "" THEN "API"
    ELSE IF FallbackDue(s) /\ btc # "none" THEN "BTC"
    ELSE IF ForceDue(s) THEN "TIMEOUT"
    ELSE ""

SniperWon(s, api, btc) ==
    LET via == ResolvedVia(s, api, btc)
    IN  IF via = "API" THEN check_win(s.outcome, api.res)
        ELSE IF via = "BTC" THEN check_win(s.outcome, btc)
        ELSE TRUE

\* the pnl is added a second time
SniperCreditTwice(a, won, pnl) ==
    IF a = Null THEN a
    ELSE [a EXCEPT !.wins = IF won THEN @ + 1 ELSE @,
                   !.losses = IF won THEN @ ELSE @ + 1,
                   !.total_pnl = @ + pnl + pnl]

\* the sniper's statistics after a closed trade
SniperCredit(a, won, pnl) ==
    IF a = Null THEN a
    ELSE [a EXCEPT !.wins = IF won THEN @ + 1 ELSE @,
                   !.losses = IF won THEN @ ELSE @ + 1,
                   !.total_pnl = @ + pnl]

\* _check_session asks the gateway for the order's status
SessionAsks(s) == s.order_id # 0 /\ s.order_status = "live"

\* the session after the fill check
SessionChecked(s, st, fill_mid) ==
    IF SessionAsks(s) /\ st = "matched" THEN SessionFilled(s, fill_mid) ELSE s

\* the order is reported cancelled or expired: the session is dropped
SessionGone(s, st) == SessionAsks(s) /\ st \in {"cancelled", "expired"}

\* the stop-loss block queries the mid
SessionWatching(s1) ==
    s1.order_status = "matched" /\ s1.stop_loss_cents > 0 /\ s1.mid_at_fill > 0

\* the resolution block queries the market
SessionResolving(s1) ==
    s1.order_status = "matched" /\ s1.market_end_ts > 0 /\ now - s1.market_end_ts > 15

\* the unfilled order is cancelled at market end
SessionLate(s1) ==
    s1.order_status = "live" /\ s1.market_end_ts > 0 /\ now > s1.market_end_ts

\* _check_session on session s: st is what check_order_status answers,
\* fill_mid and mid what fetch_midprice answers at the fill and at the
\* stop-loss, sell_ok whether the market sell is taken, api and btc the
\* resolution sources, cancel_ok whether the cancel goes through.  session is
\* Null in the result when the session was removed.
check_session(a, s, ords, st, fill_mid, mid, sell_ok, api, btc, cancel_ok) ==
    LET sn == GetSniperForSession(a, s)
        Notify(text) == <<Call("notify", s.condition_id, text)>>
        c1 == IF SessionAsks(s) /\ st = "matched" THEN Notify("FILL") ELSE <<>>
        s1 == SessionChecked(s, st, fill_mid)
        sl_pnl == mid * s1.total_shares - s1.total_spent
        via == IF SessionResolving(s1) THEN ResolvedVia(s1, api, btc) ELSE ""
        won == SniperWon(s1, api, btc)
        pnl == IF won THEN s1.total_shares * 100 - s1.total_spent ELSE 0 - s1.total_spent
        c3 == IF ~SessionResolving(s1) THEN <<>>
              ELSE IF ResolvedVia(s1, api, "none") = "API"
              THEN <<Call("fetch_market_by_condition", s.condition_id, ApiText(api))>>
              ELSE IF ~FallbackDue(s1) THEN <<>>
              ELSE <<Call("btc_kline", s.condition_id, btc)>>
        Log(result) == <<Call("log_trade_to_sheets", s.condition_id, result)>>
        Out(x, ss, oo, cc, sv) ==
            [auto |-> x, session |-> ss, orders |-> oo, calls |-> cc, saved |-> sv]
    IN  IF SessionGone(s, st) THEN Out(a, Null, ords, c1, FALSE)
        ELSE IF SniperStopLoss(s1, mid)
        THEN Out(IF sn = Null THEN a ELSE SniperCredit(a, FALSE, sl_pnl), Null, ords,
                 c1 \o <<Call("place_market_sell", s.condition_id, OkFail(sell_ok))>>
                    \o Log("STOP-LOSS") \o Notify("STOP-LOSS"),
                 sn # Null)
        ELSE IF via # ""
        THEN Out(IF sn = Null THEN a ELSE SniperCredit(a, won, pnl), Null, ords,
                 c1 \o c3 \o Log(IF won THEN "WIN" ELSE "LOSS")
                    \o Notify((IF won THEN "WIN" ELSE "LOSS") \o " " \o via),
                 sn # Null)
        ELSE IF SessionLate(s1)
        THEN Out(a, Null, cancel_order(ords, s1.order_id, cancel_ok),
                 c1 \o c3 \o <<Call("cancel_order", s1.order_id, OkFail(cancel_ok))>>, FALSE)
        ELSE Out(a, s1, ords, c1 \o c3, FALSE)

----------------------------------------------------------------------------
\* The adaptive bot (btc_adaptive.py)

\* _bot_stats as the module builds it, with the counters given
AdaptiveStats(wins, losses, total_pnl, total_trades) ==
    [wins |-> wins, losses |-> losses, total_pnl |-> total_pnl,
     total_trades |-> total_trades, current_slug |-> 0, current_entered |-> FALSE]

\* _save_state: the row written
AdaptiveSaveState(active, stats) ==
    [active |-> active, wins |-> stats.wins, losses |-> stats.losses,
     total_pnl |-> stats.total_pnl, total_trades |-> stats.total_trades]

\* _load_state: the flag and the statistics after the load
AdaptiveLoadState(row) ==
    IF row = Null THEN [active |-> FALSE, stats |-> AdaptiveStats(0, 0, 0, 0)]
    ELSE [active |-> row.active,
          stats |-> AdaptiveStats(row.wins, row.losses, row.total_pnl, row.total_trades)]

\* the strategies analyze_market can return with time_left seconds to go
StrategiesAt(time_left) ==
    {"skip"} \cup (IF time_left <= 45 THEN {"confident"} ELSE {})
             \cup (IF time_left <= 90 THEN {"moderate"} ELSE {})
             \cup (IF time_left <= 150 THEN {"early"} ELSE {})

\* MarketAnalysis.entry_price of a strategy, in cents
StrategyPrice(strategy) ==
    CASE strategy = "confident" -> 88
      [] strategy = "moderate" -> 70
      [] strategy = "early" -> 58
      [] OTHER -> 0

\* ActiveTrade(...) as _run_cycle builds it
ActiveTrade(slug, direction, strategy, oid) ==
    [slug |-> slug, condition_id |-> slug, order_id |-> oid, order_status |-> "live",
     direction |-> direction, strategy |-> strategy,
     entry_price |-> StrategyPrice(strategy), size_usdc |-> 100,
     shares |-> 0, cost |-> 0, mid_at_fill |-> 0, market_end_ts |-> END_TS(slug)]

\* _bot_stats after the slug comparison of _run_cycle
AdaptiveRolled(stats, live) ==
    IF live # stats.current_slug
    THEN [stats EXCEPT !.current_slug = live, !.current_entered = FALSE]
    ELSE stats

\* _run_cycle reaches analyze_market
AdaptiveDeciding(stats, live) ==
    /\ live # 0
    /\ END_TS(live) - now > 0
    /\ END_TS(live) - now <= 900
    /\ ~AdaptiveRolled(stats, live).current_entered
    /\ END_TS(live) - now <= 150

\* ... passes the time gate of its strategy and finds its token
AdaptivePricing(stats, live, strategy, hasTok) ==
    /\ AdaptiveDeciding(stats, live)
    /\ strategy # "skip"
    /\ ~(strategy = "confident" /\ END_TS(live) - now > 45)
    /\ ~(strategy = "moderate" /\ END_TS(live) - now > 90)
    /\ ~(strategy = "early" /\ END_TS(live) - now > 150)
    /\ hasTok

\* ... and places its order
AdaptiveOrdering(stats, live, strategy, hasTok, mid) ==
    /\ AdaptivePricing(stats, live, strategy, hasTok)
    /\ ~(mid # 0 /\ mid > StrategyPrice(strategy))

\* _run_cycle without an active trade: live is what find_live_market returns,
\* strategy and direction what analyze_market returns, hasTok whether the
\* market carries the token, mid what _fetch_midprice answers, outcome what
\* the gateway does with the order.
run_cycle(stats, ords, live, strategy, direction, hasTok, mid, outcome) ==
    LET s1 == AdaptiveRolled(stats, live)
        price == StrategyPrice(strategy)
        oid == PlacedId(ords, price, outcome)
        placed == place_limit_buy(ords, live, direction, price, 100, outcome)
        s2 == [s1 EXCEPT !.current_entered = TRUE]
        Out(x, tr, oo, cc) ==
            [stats |-> x, trade |-> tr, orders |-> oo, calls |-> cc, saved |-> FALSE]
    IN  IF live = 0 THEN Out(stats, Null, ords, <<>>)
        ELSE IF END_TS(live) - now <= 0 \/ END_TS(live) - now > 900
        THEN Out([stats EXCEPT !.current_slug = 0, !.current_entered = FALSE], Null, ords, <<>>)
        ELSE IF ~AdaptiveOrdering(stats, live, strategy, hasTok, mid)
        THEN Out(s1, Null, ords, <<>>)
        ELSE IF oid = 0
        THEN Out(s2, Null, placed, <<Call("place_limit_buy", live, outcome)>>)
        ELSE Out(s2, ActiveTrade(live, direction, strategy, oid), placed,
                 <<Call("place_limit_buy", live, outcome)>>)

\* the fill branch of _check_active_trade
TradeFilled(trade, fill_mid) ==
    [trade EXCEPT !.order_status = "matched",
                  !.shares = RoundDiv(100 * trade.size_usdc, trade.entry_price),
                  !.cost = trade.size_usdc * 100,
                  !.mid_at_fill = fill_mid]

\* _check_active_trade queries the resolution sources
TradeResolving(trade) ==
    trade.order_status = "matched" /\ ~(now < trade.market_end_ts + 15)

\* the resolution _check_active_trade arrives at: the API's text whenever it
\* is not empty, else "p1" or "p2" from the candle after 120 seconds, else
\* "timeout" after 600 seconds, else "" for not yet
AdaptiveResolution(trade, api, btc) ==
    IF api # Null /\ api.res # "" THEN api.res
    ELSE IF now > trade.market_end_ts + 120 /\ btc # "none"
    THEN (IF btc = "Up" THEN "p1" ELSE "p2")
    ELSE IF now > trade.market_end_ts + 600 THEN "timeout"
    ELSE ""

\* the WIN/LOSS decision of _check_active_trade
AdaptiveWon(direction, resolution) ==
    IF resolution \in {"p1", "Yes", "1"} THEN direction = "Up"
    ELSE IF resolution \in {"p2", "No", "0"} THEN direction = "Down"
    ELSE FALSE

\* the statistics after a resolved trade
AdaptiveCredit(stats, won, pnl) ==
    [stats EXCEPT !.total_trades = @ + 1,
                  !.wins = IF won THEN @ + 1 ELSE @,
                  !.losses = IF won THEN @ ELSE @ + 1,
                  !.total_pnl = @ + pnl]

\* _check_active_trade on the active trade: st is what check_order_status
\* answers, fill_mid what _fetch_midprice answers at the fill, api and btc the
\* resolution sources, cancel_ok whether the cancel goes through.
check_active_trade(stats, trade, ords, st, fill_mid, api, btc, cancel_ok) ==
    LET res == AdaptiveResolution(trade, api, btc)
        won == AdaptiveWon(trade.direction, res)
        pnl == IF won THEN trade.shares * 100 - trade.cost ELSE 0 - trade.cost
        c3 == IF api # Null /\ api.res # ""
              THEN <<Call("fetch_market_by_slug", trade.slug, ApiText(api))>>
              ELSE IF now > trade.market_end_ts + 120
              THEN <<Call("btc_kline", trade.slug, btc)>>
              ELSE <<>>
        Out(x, tr, oo, cc, sv) ==
            [stats |-> x, trade |-> tr, orders |-> oo, calls |-> cc, saved |-> sv]
    IN  IF trade.order_status = "live"
        THEN IF st = "matched" THEN Out(stats, TradeFilled(trade, fill_mid), ords, <<>>, FALSE)
             ELSE IF now > trade.market_end_ts + 30
             THEN Out(stats, Null, cancel_order(ords, trade.order_id, cancel_ok),
                      <<Call("cancel_order", trade.order_id, OkFail(cancel_ok))>>, FALSE)
             ELSE Out(stats, trade, ords, <<>>, FALSE)
        ELSE IF ~TradeResolving(trade) THEN Out(stats, trade, ords, <<>>, FALSE)
        ELSE IF res = "" THEN Out(stats, trade, ords, c3, FALSE)
        ELSE Out(AdaptiveCredit(stats, won, pnl), Null, ords,
                 c3 \o <<Call("notify", trade.slug, IF won THEN "WIN" ELSE "LOSS"),
                         Call("log_to_sheets", trade.slug, IF won THEN "WIN" ELSE "LOSS")>>,
                 TRUE)

----------------------------------------------------------------------------
\* The liquidity scalper (btc_liquidity.py)

\* _liq_stats and _mm_stats as the modules build them, with the counters given
ScalpStats(wins, losses, breakeven, total_pnl, total_trades) ==
    [wins |-> wins, losses |-> losses, breakeven |-> breakeven,
     total_pnl |-> total_pnl, total_trades |-> total_trades]

\* _save_state / _save_mm_state: the row written
ScalpSaveState(active, stats) ==
    [active |-> active, wins |-> stats.wins, losses |-> stats.losses,
     breakeven |-> stats.breakeven, total_pnl |-> stats.total_pnl,
     total_trades |-> stats.total_trades]

\* _load_state / _load_mm_state: the flag and the statistics after the load
ScalpLoadState(row) ==
    IF row = Null THEN [active |-> FALSE, stats |-> ScalpStats(0, 0, 0, 0, 0)]
    ELSE [active |-> row.active,
          stats |-> ScalpStats(row.wins, row.losses, row.breakeven, row.total_pnl,
                               row.total_trades)]

\* An order book as analyze_orderbook reads it: the mid and the spread in
\* cents, the biggest bid cluster (price in cents, size in shares), the price
\* of the biggest ask cluster, and the dollar liquidity of each side.
Book(mid, spread, support_price, support_size, resistance_price, bid_liq, ask_liq) ==
    [mid |-> mid, spread |-> spread, support_price |-> support_price,
     support_size |-> support_size, resistance_price |-> resistance_price,
     bid_liq |-> bid_liq, ask_liq |-> ask_liq]

\* The books a fetch may answer for a side: none, a thin wall, and a strong
\* wall under the mid with resistance far above it (the up side) or close
\* above it (the down side).
BooksOf(side) ==
    {Null,
     Book(50, 2, 48, 10, 70, 300, 100),
     IF side = "Up" THEN Book(50, 2, 48, 60, 70, 300, 100)
     ELSE Book(50, 2, 48, 60, 55, 300, 100)}

\* the score analyze_orderbook gives a book that passed its filters
BookScore(b) ==
    LET wall_distance == b.mid - b.support_price
    IN  (IF b.support_size >= 50 THEN 30 ELSE IF b.support_size >= 30 THEN 20
         ELSE IF b.support_size >= 20 THEN 10 ELSE 0)
      + (IF wall_distance <= 2 THEN 25 ELSE IF wall_distance <= 3 THEN 15
         ELSE IF wall_distance <= 5 THEN 5 ELSE 0)
      + (IF b.bid_liq > 0 /\ b.ask_liq > 0
         THEN (IF 10 * b.bid_liq > 15 * b.ask_liq THEN 25
               ELSE IF 10 * b.bid_liq > 12 * b.ask_liq THEN 15
               ELSE IF b.bid_liq > b.ask_liq THEN 5 ELSE 0)
         ELSE 0)
      + (IF b.spread <= 2 THEN 20 ELSE IF b.spread <= 4 THEN 10 ELSE 0)

\* analyze_orderbook: the signal of one side's book, with the entry, exit and
\* stop prices it computes from the wall
analyze_orderbook(b, side) ==
    LET none == [side |-> side, has_support |-> FALSE, entry_price |-> 0,
                 exit_price |-> 0, stop_price |-> 0, score |-> 0]
        entry == b.support_price + 2
        natural_target == entry + 10
        exit1 == IF b.resistance_price > 0 /\ b.resistance_price < natural_target
                 THEN b.resistance_price - 1 ELSE natural_target
        exit2 == IF exit1 - entry < 5 THEN entry + 5 ELSE exit1
    IN  IF b = Null THEN none
        ELSE IF b.support_size <= 0 \/ b.mid <= 0 THEN none
        ELSE IF b.mid - b.support_price < 0 \/ b.mid - b.support_price > 5 THEN none
        ELSE IF b.support_size < 20 THEN none
        ELSE IF b.mid < 35 \/ b.mid > 65 THEN none
        ELSE [side |-> side, has_support |-> BookScore(b) >= 40, entry_price |-> entry,
              exit_price |-> exit2, stop_price |-> b.support_price - 3,
              score |-> BookScore(b)]

\* the better setup of the two sides, or Null
BestSetup(a_up, a_down) ==
    IF a_up.has_support /\ a_down.has_support
    THEN (IF a_up.score >= a_down.score THEN a_up ELSE a_down)
    ELSE IF a_up.has_support THEN a_up
    ELSE IF a_down.has_support THEN a_down
    ELSE Null

\* LiqTrade(...) as _run_liq_cycle builds it
LiqTrade(slug, best, oid, shares, buy_st) ==
    [slug |-> slug, condition_id |-> slug, market_end_ts |-> END_TS(slug),
     direction |-> best.side,
     buy_order_id |-> oid, buy_status |-> buy_st, buy_price |-> best.entry_price,
     shares |-> shares, cost |-> RoundDiv(shares * best.entry_price, 100) * 100,
     sell_order_id |-> 0, sell_status |-> "", exit_price |-> best.exit_price,
     stop_order_id |-> 0, stop_status |-> "", stop_price |-> best.stop_price,
     entered_at |-> now]

\* _run_liq_cycle reaches the order books
LiqDeciding(traded, live) ==
    /\ live # 0
    /\ ~(900 - (END_TS(live) - now) < 30 \/ 900 - (END_TS(live) - now) > 600)
    /\ ~(END_TS(live) - now < 120)
    /\ live \notin traded

\* ... and places its order
LiqOrdering(traded, live, book_up, book_down) ==
    /\ LiqDeciding(traded, live)
    /\ BestSetup(analyze_orderbook(book_up, "Up"), analyze_orderbook(book_down, "Down")) # Null

\* _run_liq_cycle without an active trade
run_liq_cycle(traded, ords, live, book_up, book_down, outcome) ==
    LET best == BestSetup(analyze_orderbook(book_up, "Up"), analyze_orderbook(book_down, "Down"))
        oid == PlacedId(ords, best.entry_price, outcome)
        placed == place_limit_buy(ords, live, best.side, best.entry_price, 100, outcome)
        traded1 == IF Cardinality(traded \cup {live}) > 30 THEN {} ELSE traded \cup {live}
        Out(tr, ts, oo, cc, sv) ==
            [trade |-> tr, traded |-> ts, orders |-> oo, calls |-> cc, saved |-> sv]
    IN  IF ~LiqOrdering(traded, live, book_up, book_down)
        THEN Out(Null, traded, ords, <<>>, FALSE)
        ELSE IF oid = 0
        THEN Out(Null, traded1, placed, <<Call("place_limit_buy", live, outcome)>>, FALSE)
        ELSE Out(LiqTrade(live, best, oid, placed[oid].size, outcome), traded1, placed,
                 <<Call("place_limit_buy", live, outcome)>>, TRUE)

\* _close_liq_trade: the statistics after a trade closed with pnl
close_liq_trade(stats, pnl) ==
    [stats EXCEPT !.total_trades = @ + 1,
                  !.wins = IF pnl > 100 THEN @ + 1 ELSE @,
                  !.losses = IF ~(pnl > 100) /\ pnl < 0 - 100 THEN @ + 1 ELSE @,
                  !.breakeven = IF ~(pnl > 100) /\ ~(pnl < 0 - 100) THEN @ + 1 ELSE @,
                  !.total_pnl = @ + pnl]

\* _manage_liq_trade asks for the buy order's status
LiqAsks(t) == t.buy_status = "live"

\* ... goes on past the buy check: the buy is filled
LiqHolding(t, st_buy) == t.buy_status = "matched" \/ st_buy = "matched"

\* ... places the exit order
LiqSelling(t, st_buy) == LiqHolding(t, st_buy) /\ t.sell_order_id = 0

\* ... asks for the exit order's status
LiqWatching(t, st_buy) ==
    LiqHolding(t, st_buy) /\ t.sell_order_id # 0 /\ t.sell_status = "live"

\* ... queries the mid for the stop-loss
LiqChecking(t, st_buy, st_sell) == LiqWatching(t, st_buy) /\ st_sell # "matched"

\* the stop-loss condition on the queried mid
LiqStopLoss(t, mid) == mid # 0 /\ mid <= t.stop_price

\* ... asks for the stop order's status
LiqStopAsks(t, st_buy, st_sell, mid) ==
    /\ LiqChecking(t, st_buy, st_sell)
    /\ ~LiqStopLoss(t, mid)
    /\ t.stop_order_id # 0
    /\ t.stop_status = "live"

\* ... reaches the emergency close
LiqEmergency(t, st_buy, st_sell, mid, st_stop) ==
    /\ LiqChecking(t, st_buy, st_sell)
    /\ ~LiqStopLoss(t, mid)
    /\ ~(t.stop_order_id # 0 /\ t.stop_status = "live" /\ st_stop = "matched")
    /\ t.market_end_ts - now <= 60

\* the live exit orders the emergency close cancels, in order
LiqLiveExits(t) ==
    (IF t.sell_order_id # 0 /\ t.sell_status = "live" THEN <<t.sell_order_id>> ELSE <<>>)
    \o (IF t.stop_order_id # 0 /\ t.stop_status = "live" THEN <<t.stop_order_id>> ELSE <<>>)

\* cancel_order on each order of a list
RECURSIVE CancelAll(_, _, _)
CancelAll(ords, oids, ok) ==
    IF oids = <<>> THEN ords
    ELSE CancelAll(cancel_order(ords, Head(oids), ok), Tail(oids), ok)

\* the cancel calls for a list of orders
CancelCalls(oids, ok) == [i \in DOMAIN oids |-> Call("cancel_order", oids[i], OkFail(ok))]

\* the stop-loss branch of _manage_liq_trade taken at once with a market
\* sell, without the limit sell at the stop price
liq_stop_loss_market(stats, t1, ords, mid, stop_out, cancel_ok) ==
    LET live == t1.sell_order_id # 0 /\ t1.sell_status = "live"
        ords4 == IF live THEN cancel_order(ords, t1.sell_order_id, cancel_ok) ELSE ords
        c4 == IF live THEN CancelCalls(<<t1.sell_order_id>>, cancel_ok) ELSE <<>>
    IN  [stats |-> close_liq_trade(stats, t1.shares * mid - t1.cost), trade |-> Null,
         orders |-> ords4,
         calls |-> c4 \o <<Call("place_market_sell", t1.condition_id, "sent")>>,
         saved |-> TRUE]

\* The stop-loss branch of _manage_liq_trade, entered with a mid at or below
\* the stop price: the exit order is cancelled and a limit sell is placed at
\* the stop price; filled at once it closes the trade, resting it is checked
\* on later runs, refused it is followed by a market sell.
liq_stop_loss(stats, t1, ords, mid, stop_out, cancel_ok) ==
    LET live == t1.sell_order_id # 0 /\ t1.sell_status = "live"
        ords4 == IF live THEN cancel_order(ords, t1.sell_order_id, cancel_ok) ELSE ords
        c4 == IF live THEN CancelCalls(<<t1.sell_order_id>>, cancel_ok) ELSE <<>>
        stop_id == SoldId(ords4, stop_out)
        stop_call == Call("place_limit_sell", t1.condition_id, stop_out)
        placed == place_limit_sell(ords4, t1.slug, t1.direction, t1.stop_price, t1.shares, stop_out)
        Closed(price, oo, cc) ==
            [stats |-> close_liq_trade(stats, t1.shares * price - t1.cost), trade |-> Null,
             orders |-> oo, calls |-> cc, saved |-> TRUE]
    IN  IF stop_id = 0
        THEN Closed(mid, ords4, c4 \o <<stop_call, Call("place_market_sell", t1.condition_id, "sent")>>)
        ELSE IF stop_out = "matched"
        THEN Closed(t1.stop_price, placed, c4 \o <<stop_call>>)
        ELSE [stats |-> stats,
              trade |-> [t1 EXCEPT !.stop_order_id = stop_id, !.stop_status = "live",
                                   !.sell_order_id = 0, !.sell_status = ""],
              orders |-> placed, calls |-> c4 \o <<stop_call>>, saved |-> FALSE]

\* _manage_liq_trade on the active trade t: st_buy, st_sell and st_stop are
\* what check_order_status answers for the three orders, sell_out and stop_out
\* what the gateway does with the exit and the stop order, mid and end_mid
\* what fetch_midprice answers at the stop-loss check (and after a refused
\* exit order) and at the emergency close, cancel_ok whether cancels go
\* through.
manage_liq_trade(stats, t, ords, st_buy, sell_out, st_sell, mid, stop_out, st_stop, end_mid, cancel_ok) ==
    LET t1 == IF LiqAsks(t) /\ st_buy = "matched" THEN [t EXCEPT !.buy_status = "matched"] ELSE t
        sell_id == SoldId(ords, sell_out)
        sell_call == Call("place_limit_sell", t.condition_id, sell_out)
        market_call == Call("place_market_sell", t.condition_id, "sent")
        Pnl(price) == t1.shares * price - t1.cost
        Out(x, tr, oo, cc, sv) ==
            [stats |-> x, trade |-> tr, orders |-> oo, calls |-> cc, saved |-> sv]
        Closed(price, oo, cc) == Out(close_liq_trade(stats, Pnl(price)), Null, oo, cc, TRUE)
        asked == IF LiqAsks(t) THEN <<Call("check_order_status", t.buy_order_id, st_buy)>> ELSE <<>>
        After(r) == [r EXCEPT !.calls = asked \o @]
    IN  After(
        IF LiqAsks(t) /\ st_buy # "matched"
        THEN IF now - t.entered_at > 60
             THEN Out(stats, Null, cancel_order(ords, t.buy_order_id, cancel_ok),
                      <<Call("cancel_order", t.buy_order_id, OkFail(cancel_ok))>>, FALSE)
             ELSE Out(stats, t, ords, <<>>, FALSE)
        ELSE IF t1.sell_order_id = 0
        THEN IF sell_id # 0
             THEN Out(stats, [t1 EXCEPT !.sell_order_id = sell_id, !.sell_status = "live"],
                      place_limit_sell(ords, t.slug, t.direction, t.exit_price, t.shares, sell_out),
                      <<sell_call>>, TRUE)
             ELSE Closed(IF mid # 0 THEN mid ELSE t.buy_price, ords, <<sell_call, market_call>>)
        ELSE IF t1.sell_status = "live" /\ st_sell = "matched"
        THEN Closed(t.exit_price, ords, <<>>)
        ELSE IF LiqStopLoss(t1, mid)
        THEN liq_stop_loss(stats, t1, ords, mid, stop_out, cancel_ok)
        ELSE IF t1.stop_order_id # 0 /\ t1.stop_status = "live" /\ st_stop = "matched"
        THEN Closed(t.stop_price, ords, <<>>)
        ELSE IF t1.market_end_ts - now <= 60
        THEN Closed(IF end_mid # 0 THEN end_mid ELSE t.buy_price,
                    CancelAll(ords, LiqLiveExits(t1), cancel_ok),
                    CancelCalls(LiqLiveExits(t1), cancel_ok) \o <<market_call>>)
        ELSE Out(stats, t1, ords, <<>>, FALSE))

----------------------------------------------------------------------------
\* The market maker (btc_mm.py)

\* _mm_config, in cents
MM_BUY_PRICE == 50
MM_SELL_TARGET == 60
MM_STOP_LOSS == 40
MM_SIZE_USDC == 100

\* the shares of one side: max(ceil(size * 1.05 / buy_price * 100) / 100, 5)
MMShares == Max(CeilDiv(MM_SIZE_USDC * 105, MM_BUY_PRICE), MIN_SHARES)

\* actual_cost, in cents: round(shares * buy_price, 2)
MMCost == RoundDiv(MMShares * MM_BUY_PRICE, 100)

\* MMSession(...) as _run_mm_cycle builds it
MMSession(slug, yes_id, yes_st, no_id, no_st) ==
    [slug |-> slug, condition_id |-> slug, market_end_ts |-> END_TS(slug),
     yes_buy_order |-> yes_id, yes_buy_status |-> yes_st,
     yes_sell_order |-> 0, yes_sell_status |-> "", yes_shares |-> MMShares,
     yes_closed |-> FALSE, yes_pnl |-> 0,
     no_buy_order |-> no_id, no_buy_status |-> no_st,
     no_sell_order |-> 0, no_sell_status |-> "", no_shares |-> MMShares,
     no_closed |-> FALSE, no_pnl |-> 0,
     phase |-> IF yes_st = "matched" /\ no_st = "matched" THEN "selling" ELSE "buying",
     entered_at |-> now]

\* set(list(_traded_slugs)[-10:]): a set of strings is listed in the order of
\* their hashes, which differs from process to process, so the ten slugs kept
\* are any ten of the set.  Two of the outcomes: the ten oldest, the ten newest.
MMKept(traded0) ==
    { {x \in traded0 : Cardinality({y \in traded0 : y < x}) < 10},
      {x \in traded0 : Cardinality({y \in traded0 : y > x}) < 10} }

\* _run_mm_cycle reaches check_mm_conditions
MMDeciding(traded, live) ==
    /\ live # 0
    /\ ~(900 - (END_TS(live) - now) < 180 \/ 900 - (END_TS(live) - now) > 600)
    /\ live \notin traded

\* ... and places its orders: the market is flat and volatile and both mids
\* are between 44 and 56 cents
MMOrdering(traded, live, should_enter, mid_yes, mid_no) ==
    /\ MMDeciding(traded, live)
    /\ should_enter
    /\ mid_yes # 0 /\ mid_no # 0
    /\ 44 <= mid_yes /\ mid_yes <= 56 /\ 44 <= mid_no /\ mid_no <= 56

\* the gateway's orders after the YES buy
MMAfterYes(ords, live, out_yes) ==
    place_limit_buy(ords, live, "Up", MM_BUY_PRICE, MMCost, out_yes)

\* _run_mm_cycle without an active session: should_enter is what
\* check_mm_conditions finds, mid_yes and mid_no what fetch_midprice answers,
\* out_yes and out_no what the gateway does with the two buys, cancel_ok
\* whether the cancel of the YES buy goes through when the NO buy is refused.
run_mm_cycle(traded, ords, live, should_enter, mid_yes, mid_no, out_yes, out_no, cancel_ok, kept) ==
    LET traded0 == traded \cup {live}
        traded1 == IF Cardinality(traded0) > 20 THEN kept ELSE traded0
        yes_id == PlacedId(ords, MM_BUY_PRICE, out_yes)
        ords1 == MMAfterYes(ords, live, out_yes)
        no_id == PlacedId(ords1, MM_BUY_PRICE, out_no)
        ords2 == place_limit_buy(ords1, live, "Down", MM_BUY_PRICE, MMCost, out_no)
        buy_yes == Call("place_limit_buy", live, out_yes)
        buy_no == Call("place_limit_buy", live, out_no)
        Out(ss, ts, oo, cc, sv) ==
            [session |-> ss, traded |-> ts, orders |-> oo, calls |-> cc, saved |-> sv]
    IN  IF ~MMOrdering(traded, live, should_enter, mid_yes, mid_no)
        THEN Out(Null, traded, ords, <<>>, FALSE)
        ELSE IF yes_id = 0 THEN Out(Null, traded1, ords1, <<buy_yes>>, FALSE)
        ELSE IF no_id = 0
        THEN IF out_yes = "matched"
             THEN Out(Null, traded1, ords2,
                      <<buy_yes, buy_no, Call("place_market_sell", live, "sent")>>, FALSE)
             ELSE Out(Null, traded1, cancel_order(ords2, yes_id, cancel_ok),
                      <<buy_yes, buy_no, Call("cancel_order", yes_id, OkFail(cancel_ok))>>, FALSE)
        ELSE Out(MMSession(live, yes_id, out_yes, no_id, out_no), traded1, ords2,
                 <<buy_yes, buy_no>>, TRUE)

\* the buying phase of _manage_session after its two status checks
MMBought(s, st_yes, st_no) ==
    [s EXCEPT !.yes_buy_status = IF @ = "live" /\ st_yes = "matched" THEN "matched" ELSE @,
              !.no_buy_status = IF @ = "live" /\ st_no = "matched" THEN "matched" ELSE @]

\* the buy orders the timeout of the buying phase cancels, in order
MMLiveBuys(s1) ==
    (IF s1.yes_buy_status = "live" THEN <<s1.yes_buy_order>> ELSE <<>>)
    \o (IF s1.no_buy_status = "live" THEN <<s1.no_buy_order>> ELSE <<>>)

\* the buying phase times out
MMTimedOut(s1) ==
    /\ ~(s1.yes_buy_status = "matched" /\ s1.no_buy_status = "matched")
    /\ now - s1.entered_at > 30

\* the PnL of one side sold at price, round(shares * price - shares * buy_price, 4)
MMPnl(shares, price) == shares * price - shares * MM_BUY_PRICE

\* the statistics after a session closed with total_pnl
MMCredit(stats, total_pnl) ==
    [stats EXCEPT !.total_trades = @ + 1,
                  !.total_pnl = @ + total_pnl,
                  !.wins = IF total_pnl > 100 THEN @ + 1 ELSE @,
                  !.losses = IF ~(total_pnl > 100) /\ total_pnl < 0 - 100 THEN @ + 1 ELSE @,
                  !.breakeven = IF ~(total_pnl > 100) /\ ~(total_pnl < 0 - 100) THEN @ + 1 ELSE @]

\* the buying phase of _manage_session
mm_buying(stats, s, ords, st_yes, st_no, cancel_ok) ==
    LET s1 == MMBought(s, st_yes, st_no)
        one == (s1.yes_buy_status = "matched") # (s1.no_buy_status = "matched")
        Out(x, ss, oo, cc, sv) ==
            [stats |-> x, session |-> ss, orders |-> oo, calls |-> cc, saved |-> sv]
    IN  IF s1.yes_buy_status = "matched" /\ s1.no_buy_status = "matched"
        THEN Out(stats, [s1 EXCEPT !.phase = "selling"], ords, <<>>, FALSE)
        ELSE IF MMTimedOut(s1)
        THEN Out(stats, Null, CancelAll(ords, MMLiveBuys(s1), cancel_ok),
                 CancelCalls(MMLiveBuys(s1), cancel_ok)
                 \o (IF one THEN <<Call("place_market_sell", s.condition_id, "sent")>> ELSE <<>>),
                 FALSE)
        ELSE Out(stats, s1, ords, <<>>, FALSE)

\* the gateway's orders after the YES sell of the selling phase
MMAfterYesSell(s, ords, out_yes) ==
    IF s.yes_sell_order = 0 /\ ~s.yes_closed
    THEN place_limit_sell(ords, s.slug, "Up", MM_SELL_TARGET, s.yes_shares, out_yes)
    ELSE ords

\* the selling phase of _manage_session
mm_selling(stats, s, ords, out_yes, out_no) ==
    LET do_yes == s.yes_sell_order = 0 /\ ~s.yes_closed
        do_no == s.no_sell_order = 0 /\ ~s.no_closed
        yes_id == SoldId(ords, out_yes)
        ords1 == MMAfterYesSell(s, ords, out_yes)
        no_id == SoldId(ords1, out_no)
        ords2 == IF do_no
                 THEN place_limit_sell(ords1, s.slug, "Down", MM_SELL_TARGET, s.no_shares, out_no)
                 ELSE ords1
        s1 == IF do_yes /\ yes_id # 0
              THEN [s EXCEPT !.yes_sell_order = yes_id, !.yes_sell_status = "live"] ELSE s
        s2 == IF do_no /\ no_id # 0
              THEN [s1 EXCEPT !.no_sell_order = no_id, !.no_sell_status = "live"] ELSE s1
    IN  [stats |-> stats, session |-> [s2 EXCEPT !.phase = "monitoring"], orders |-> ords2,
         calls |-> (IF do_yes THEN <<Call("place_limit_sell", s.condition_id, out_yes)>> ELSE <<>>)
                   \o (IF do_no THEN <<Call("place_limit_sell", s.condition_id, out_no)>> ELSE <<>>),
         saved |-> TRUE]

\* the monitoring phase after its two status checks
MMSold(s, st_yes, st_no) ==
    LET yes == s.yes_sell_order # 0 /\ s.yes_sell_status = "live" /\ st_yes = "matched"
        no == s.no_sell_order # 0 /\ s.no_sell_status = "live" /\ st_no = "matched"
    IN  [s EXCEPT !.yes_sell_status = IF yes THEN "matched" ELSE @,
                  !.yes_closed = IF yes THEN TRUE ELSE @,
                  !.yes_pnl = IF yes THEN MMPnl(s.yes_shares, MM_SELL_TARGET) ELSE @,
                  !.no_sell_status = IF no THEN "matched" ELSE @,
                  !.no_closed = IF no THEN TRUE ELSE @,
                  !.no_pnl = IF no THEN MMPnl(s.no_shares, MM_SELL_TARGET) ELSE @]

\* the stop-loss condition on the queried mid
MMStopLoss(mid) == mid # 0 /\ mid <= MM_STOP_LOSS

\* the live sell order of a side, as a list
MMLiveSell(order, status) == IF order # 0 /\ status = "live" THEN <<order>> ELSE <<>>

\* the monitoring phase of _manage_session: st_yes and st_no are what
\* check_order_status answers for the two sells, mid_no and mid_yes what
\* fetch_midprice answers at the stop-loss checks, end_yes and end_no what it
\* answers at the emergency close.
mm_monitoring(stats, s, ords, st_yes, st_no, mid_no, mid_yes, end_yes, end_no, cancel_ok) ==
    LET s1 == MMSold(s, st_yes, st_no)
        market_call == <<Call("place_market_sell", s.condition_id, "sent")>>
        \* stop loss of NO once YES is sold
        hitA == s1.yes_closed /\ ~s1.no_closed /\ MMStopLoss(mid_no)
        cA == IF hitA THEN MMLiveSell(s1.no_sell_order, s1.no_sell_status) ELSE <<>>
        s2 == IF hitA THEN [s1 EXCEPT !.no_closed = TRUE, !.no_pnl = MMPnl(s1.no_shares, mid_no)]
              ELSE s1
        \* stop loss of YES once NO is sold
        hitB == s2.no_closed /\ ~s2.yes_closed /\ MMStopLoss(mid_yes)
        cB == IF hitB THEN MMLiveSell(s2.yes_sell_order, s2.yes_sell_status) ELSE <<>>
        s3 == IF hitB THEN [s2 EXCEPT !.yes_closed = TRUE, !.yes_pnl = MMPnl(s2.yes_shares, mid_yes)]
              ELSE s2
        \* emergency close
        late == s.market_end_ts - now <= 60
        endY == late /\ ~s3.yes_closed
        endN == late /\ ~s3.no_closed
        cY == IF endY THEN MMLiveSell(s3.yes_sell_order, s3.yes_sell_status) ELSE <<>>
        cN == IF endN THEN MMLiveSell(s3.no_sell_order, s3.no_sell_status) ELSE <<>>
        s4 == [s3 EXCEPT !.yes_closed = IF endY THEN TRUE ELSE @,
                         !.yes_pnl = IF endY
                                     THEN MMPnl(s3.yes_shares, IF end_yes # 0 THEN end_yes ELSE 40)
                                     ELSE @,
                         !.no_closed = IF endN THEN TRUE ELSE @,
                         !.no_pnl = IF endN
                                    THEN MMPnl(s3.no_shares, IF end_no # 0 THEN end_no ELSE 40)
                                    ELSE @]
        ords1 == CancelAll(ords, cA \o cB \o cY \o cN, cancel_ok)
        calls == CancelCalls(cA, cancel_ok) \o (IF hitA THEN market_call ELSE <<>>)
                 \o CancelCalls(cB, cancel_ok) \o (IF hitB THEN market_call ELSE <<>>)
                 \o CancelCalls(cY, cancel_ok) \o (IF endY THEN market_call ELSE <<>>)
                 \o CancelCalls(cN, cancel_ok) \o (IF endN THEN market_call ELSE <<>>)
    IN  IF s4.yes_closed /\ s4.no_closed
        THEN [stats |-> MMCredit(stats, s4.yes_pnl + s4.no_pnl), session |-> Null,
              orders |-> ords1, calls |-> calls, saved |-> TRUE]
        ELSE [stats |-> stats, session |-> s4, orders |-> ords1, calls |-> calls,
              saved |-> FALSE]

----------------------------------------------------------------------------
\* The weather trader (weather_trader.py)

FORECAST_TTL == 300
MARKET_TTL == 120

\* _stats as the module builds it, with the counters given
WeatherStats(wins, losses, total_pnl, total_trades, switches) ==
    [wins |-> wins, losses |-> losses, total_pnl |-> total_pnl,
     total_trades |-> total_trades, switches |-> switches]

\* The outcomes of a weather market as _parse_market_outcomes lists them: the
\* token, the temperature in the question, and whether the question reads
\* "exactly", "or below" or "or higher".
WeatherOutcomes ==
    <<[token |-> "t10", kind |-> "exact", t |-> 10],
      [token |-> "t12up", kind |-> "above", t |-> 12]>>

\* the target dates find_weather_market can find a market for
WeatherDates == {1, 2}

\* a weather market of target date td; its order-book id is written -td
WeatherMarket(td) == [slug |-> 0 - td, target_date |-> td, outcomes |-> WeatherOutcomes]

\* find_weather_market: the cached market while it is younger than
\* MARKET_TTL, else what the request answers (Null when it fails or finds
\* no open event), which is then cached
find_weather_market(cache, answer) ==
    IF cache # Null /\ now - cache.ts < MARKET_TTL
    THEN [market |-> cache.market, cache |-> cache]
    ELSE IF answer # Null
    THEN [market |-> answer, cache |-> [ts |-> now, market |-> answer]]
    ELSE [market |-> Null, cache |-> cache]

\* find_weather_market sends a request
MarketFetched(cache) == ~(cache # Null /\ now - cache.ts < MARKET_TTL)

\* match_outcome: the first exact outcome of the temperature, else the first
\* "or below" / "or higher" outcome that covers it, else Null
match_outcome(market, temp_c) ==
    LET os == market.outcomes
        exact == {i \in DOMAIN os : os[i].kind = "exact" /\ os[i].t = temp_c}
        edge == {i \in DOMAIN os : \/ os[i].kind = "below" /\ temp_c <= os[i].t
                                   \/ os[i].kind = "above" /\ temp_c >= os[i].t}
        First(S) == CHOOSE i \in S : \A j \in S : i <= j
    IN  IF exact # {} THEN os[First(exact)]
        ELSE IF edge # {} THEN os[First(edge)]
        ELSE Null

\* Position(...) as _trade_city builds it
Position(market, outcome, temp_c, oid, buy_price, shares, is_filled) ==
    [slug |-> market.slug, target_date |-> market.target_date, token_id |-> outcome.token,
     temp_c |-> temp_c, order_id |-> oid, buy_price |-> buy_price, shares |-> shares,
     cost |-> RoundDiv(shares * buy_price, 100) * 100, filled |-> is_filled,
     switching |-> FALSE, entered_at |-> now, last_check |-> now]

\* _save_state: the three rows written
WeatherSaveState(active, stats, pos) == [active |-> active, stats |-> stats, positions |-> pos]

\* _load_state: the flag, the statistics and the position after the load;
\* a loaded position is marked as checked at the load
WeatherLoadState(row) ==
    IF row = Null
    THEN [active |-> FALSE, stats |-> WeatherStats(0, 0, 0, 0, 0), positions |-> Null]
    ELSE [active |-> row.active, stats |-> row.stats,
          positions |-> IF row.positions = Null THEN Null
                        ELSE [row.positions EXCEPT !.last_check = now]]

\* _trade_city is throttled
WeatherThrottled(pos) == pos # Null /\ now - pos.last_check < 4

\* the position after the date check: a position of another date is dropped
WeatherDated(pos, market) ==
    IF pos # Null /\ pos.target_date # market.target_date THEN Null ELSE pos

\* _trade_city asks for the buy order's status
WeatherAsks(pos1) == pos1 # Null /\ ~pos1.filled /\ pos1.order_id # 0

\* the entry order timed out
WeatherTimedOut(pos1, st) ==
    WeatherAsks(pos1) /\ st # "matched" /\ now - pos1.entered_at > 300

\* the position after the fill check
WeatherChecked(pos1, st) ==
    IF WeatherAsks(pos1) /\ st = "matched" THEN [pos1 EXCEPT !.filled = TRUE]
    ELSE IF WeatherTimedOut(pos1, st) THEN Null
    ELSE pos1

\* the forecast is fetched: no cached forecast of the date younger than
\* FORECAST_TTL
ForecastFetched(fcache, td) == ~(fcache[td] # Null /\ now - fcache[td].ts < FORECAST_TTL)

\* a forecast that could not be fetched (None)
NoTemp == 0 - 273

\* the forecast _trade_city works with, NoTemp when the fetch fails
ForecastOf(fcache, td, fc) == IF ForecastFetched(fcache, td) THEN fc ELSE fcache[td].high_c

\* the buy price for a mid: round(max(min(mid + 0.02, 0.90), 0.05), 2)
WeatherBuyPrice(mid) == Max(Min(mid + 2, 90), 5)

\* the size of the switch sell, in hundredths of a share
WeatherSellSize(pos, real_balance) ==
    LET size == IF real_balance > 0 THEN real_balance ELSE RoundDiv(pos.shares * 90, 100)
    IN  IF size < 10 THEN 10 ELSE size

\* How far a run of _trade_city gets before it acts: it is throttled, finds
\* no market, no forecast or no outcome for the forecast, holds its position,
\* switches from an unfilled or from a filled position, or has no position
\* and enters.
WeatherStage(pos, mcache, fcache, answer, st, fc) ==
    LET market == find_weather_market(mcache, answer).market
        pos2 == WeatherChecked(WeatherDated(pos, market), st)
        forecast_c == ForecastOf(fcache, market.target_date, fc)
    IN  IF WeatherThrottled(pos) THEN "throttled"
        ELSE IF market = Null THEN "nomarket"
        ELSE IF forecast_c = NoTemp THEN "noforecast"
        ELSE IF match_outcome(market, forecast_c) = Null THEN "nomatch"
        ELSE IF pos2 # Null /\ forecast_c = pos2.temp_c THEN "hold"
        ELSE IF pos2 # Null /\ ~pos2.filled THEN "cancel_switch"
        ELSE IF pos2 # Null THEN "sell_switch"
        ELSE "enter"

\* _trade_city reaches its entry
WeatherEntering(stage, sell_out) ==
    stage \in {"enter", "cancel_switch"} \/ (stage = "sell_switch" /\ sell_out = "matched")

\* _trade_city for London: answer is what the market request returns, st what
\* check_order_status answers for the entry order, fc the forecast fetched,
\* mid_sw, real_balance and sell_out the mid, the on-chain balance and the
\* gateway's answer at a switch sell, mid the mid (or, failing that, the
\* listed price) of the outcome to buy, buy_out what the gateway does with
\* the buy, cancel_ok whether cancels go through.  row is the last snapshot
\* the run saved, or Null.
trade_city(stats, pos, mcache, fcache, ords, answer, st, fc, mid_sw, real_balance, sell_out, mid, buy_out, cancel_ok) ==
    LET stage == WeatherStage(pos, mcache, fcache, answer, st, fc)
        m == find_weather_market(mcache, answer)
        market == m.market
        td == market.target_date
        pos1 == WeatherDated(pos, market)
        pos2 == WeatherChecked(pos1, st)
        \* the cancels of the date check and of the entry timeout
        c1 == (IF pos # Null /\ pos1 = Null /\ ~pos.filled /\ pos.order_id # 0
               THEN <<pos.order_id>> ELSE <<>>)
              \o (IF WeatherTimedOut(pos1, st) THEN <<pos1.order_id>> ELSE <<>>)
        ords1 == CancelAll(ords, c1, cancel_ok)
        calls1 == CancelCalls(c1, cancel_ok)
        row1 == IF WeatherAsks(pos1) /\ st = "matched"
                THEN WeatherSaveState(TRUE, stats, pos2) ELSE Null
        fcache1 == IF ForecastFetched(fcache, td) /\ fc # NoTemp
                   THEN [fcache EXCEPT ![td] = [ts |-> now, high_c |-> fc]] ELSE fcache
        forecast_c == ForecastOf(fcache, td, fc)
        outcome == match_outcome(market, forecast_c)
        \* the switch from a filled position
        sw_mid == IF mid_sw = 0 \/ mid_sw < 2 THEN 2 ELSE mid_sw
        sell_price == Max(sw_mid - 2, 1)
        sell_size == WeatherSellSize(pos2, real_balance)
        sell_id == SoldId(ords1, sell_out)
        sold == place_limit_sell(ords1, pos2.slug, pos2.token_id, sell_price, sell_size, sell_out)
        sell_call == <<Call("place_limit_sell", pos2.slug, sell_out)>>
        stats1 == IF stage = "sell_switch"
                  THEN [stats EXCEPT !.switches = @ + 1,
                                     !.total_pnl = @ + (sell_size * sell_price - pos2.cost)]
                  ELSE stats
        \* the entry
        ordsE == IF stage = "cancel_switch" THEN cancel_order(ords1, pos2.order_id, cancel_ok)
                 ELSE IF stage = "sell_switch" THEN sold
                 ELSE ords1
        callsE == calls1 \o (IF stage = "cancel_switch" THEN CancelCalls(<<pos2.order_id>>, cancel_ok)
                             ELSE IF stage = "sell_switch" THEN sell_call
                             ELSE <<>>)
        buy_price == WeatherBuyPrice(mid)
        buy_id == PlacedId(ordsE, buy_price, buy_out)
        bought == place_limit_buy(ordsE, market.slug, outcome.token, buy_price,
                                  5 * buy_price + 10, buy_out)
        buy_call == <<Call("place_limit_buy", market.slug, buy_out)>>
        new == Position(market, outcome, forecast_c, buy_id, buy_price, bought[buy_id].size,
                        buy_out = "matched")
        stats2 == [stats1 EXCEPT !.total_trades = @ + 1]
        Out(x, ps, fcs, oo, cc, rw) ==
            [stats |-> x, pos |-> ps, mcache |-> m.cache, fcache |-> fcs, orders |-> oo,
             calls |-> cc, row |-> rw]
    IN  IF stage = "throttled" THEN Out(stats, pos, fcache, ords, <<>>, Null)
        ELSE IF stage = "nomarket" THEN Out(stats, pos, fcache, ords, <<>>, Null)
        ELSE IF stage \in {"noforecast", "nomatch", "hold"}
        THEN Out(stats, pos2, fcache1, ords1, calls1, row1)
        ELSE IF stage = "sell_switch" /\ sell_id = 0
        THEN Out(stats, [pos2 EXCEPT !.last_check = now + 55], fcache1, ords1,
                 calls1 \o sell_call, row1)
        ELSE IF stage = "sell_switch" /\ sell_out # "matched"
        THEN Out(stats, [pos2 EXCEPT !.switching = TRUE, !.order_id = sell_id], fcache1, sold,
                 calls1 \o sell_call,
                 WeatherSaveState(TRUE, stats,
                                  [pos2 EXCEPT !.switching = TRUE, !.order_id = sell_id]))
        ELSE IF mid = 0 \/ mid > 90 THEN Out(stats1, Null, fcache1, ordsE, callsE, row1)
        ELSE IF buy_id = 0 THEN Out(stats1, Null, fcache1, bought, callsE \o buy_call, row1)
        ELSE Out(stats2, new, fcache1, bought, callsE \o buy_call,
                 WeatherSaveState(TRUE, stats2, new))

----------------------------------------------------------------------------
\* The weather sniper (weather_sniper.py): one event, two outcomes

WSOutcomes == {1, 2}

\* the leader's probability as the event's markets give it, in cents
WSProbs == {50, 60, 70}

\* the resolution the API gives for the market of the filled outcome
WSResolutions == {"1", "0", "Yes", "No"}

\* WeatherSniper: a sniper as start_weather_sniper makes it.  The entry
\* window of enter_hours_before is 180 seconds of the model's clock.  leader
\* is the outcome that carries the order (0: none), filled_outcome the
\* outcome that filled (0: None).
WeatherSniper(end_ts) ==
    [active |-> TRUE, max_price |-> 65, size_usdc |-> 200, enter_before |-> 180,
     event_end_ts |-> end_ts, orders_placed |-> FALSE, filled_outcome |-> 0,
     resolved |-> FALSE, result |-> "", pnl |-> 0,
     leader |-> 0, order_id |-> 0, order_status |-> "", price |-> 0, shares |-> 0, cost |-> 0]

\* _save_weather_config: the snipers in _weather_snipers that are active
SaveWeatherConfig(sn) == IF sn # Null /\ sn.active THEN sn ELSE Null

\* _load_weather_config
LoadWeatherConfig(row) ==
    IF row = Null THEN Null
    ELSE [row EXCEPT !.active = TRUE, !.resolved = FALSE, !.result = "", !.pnl = 0]

\* What a run of the weather sniper leaves: the sniper (Null: popped), the
\* book, whether the config was saved, and the external calls.
WSRun(sn, ords, saved, calls) == [sniper |-> sn, orders |-> ords, saved |-> saved, calls |-> calls]

\* the check of _check_weather_resolution on the market of the held outcome
WeatherSniperWon(resolution) == resolution \in {"1", "Yes", "yes"}

\* the result and the PnL _check_weather_resolution books before it removes
\* the sniper
WeatherSniperResult(sn, resolution) ==
    IF WeatherSniperWon(resolution)
    THEN [result |-> "WIN", pnl |-> sn.shares - sn.cost]
    ELSE [result |-> "LOSS", pnl |-> -sn.cost]

\* _check_weather_resolution: event_ok is whether the event could be fetched,
\* all_closed whether every market of it is closed, resolution what the market
\* of the filled outcome declares
check_weather_resolution(sn, ords, event_ok, all_closed, resolution) ==
    LET fetched == <<Call("fetch_event_data", 0, OkFail(event_ok))>>
    IN  IF ~event_ok THEN WSRun(sn, ords, FALSE, fetched)
        ELSE IF ~all_closed THEN WSRun(sn, ords, FALSE, fetched)
        ELSE IF sn.filled_outcome = 0 THEN WSRun(sn, ords, FALSE, fetched)
        ELSE WSRun(Null, ords, TRUE,
                   fetched \o <<Call("log_weather_trade", sn.filled_outcome,
                                     WeatherSniperResult(sn, resolution))>>)

\* the sniper waits on an order it placed
WSAsks(sn) ==
    /\ ~sn.resolved /\ sn.filled_outcome = 0 /\ sn.orders_placed
    /\ sn.order_id # 0 /\ sn.order_status = "live"

\* the run fetches the event to update the probabilities
WSMonitors(sn) == ~sn.resolved /\ sn.filled_outcome = 0 /\ ~sn.orders_placed

\* the close the timing check works with: an unknown close is taken from the
\* market data when these carry one
WSEndTs(sn, found_end) == IF sn.event_end_ts <= 0 /\ found_end THEN END_TS(1) ELSE sn.event_end_ts

\* hours_left < 0
WSClosed(end_ts) == end_ts > 0 /\ end_ts - now < 0

\* time_ready, leader_ready and affordable
WSEnters(sn, end_ts, prob) ==
    /\ end_ts > 0 /\ end_ts - now <= sn.enter_before
    /\ prob >= 55
    /\ prob <= sn.max_price

\* _check_weather_sniper
check_weather_sniper(sn, ords, st, event_ok, found_end, leader, prob, placed, event_ok2, all_closed, resolution) ==
    IF sn.resolved THEN WSRun(sn, ords, FALSE, <<>>)
    ELSE IF sn.filled_outcome # 0
    THEN check_weather_resolution(sn, ords, event_ok2, all_closed, resolution)
    ELSE IF sn.orders_placed
    THEN IF WSAsks(sn)
         THEN LET asked == <<Call("check_order_status", sn.order_id, st)>>
              IN  IF Lower(st) = "matched"
                  THEN WSRun([sn EXCEPT !.order_status = "matched",
                                        !.shares = RoundDiv(sn.size_usdc * 100, sn.price),
                                        !.cost = sn.size_usdc,
                                        !.filled_outcome = sn.leader],
                             ords, TRUE, asked)
                  ELSE WSRun(sn, ords, FALSE, asked)
         ELSE WSRun(sn, ords, FALSE, <<>>)
    ELSE LET fetched == <<Call("fetch_event_data", 0, OkFail(event_ok))>>
             sn1 == [sn EXCEPT !.event_end_ts = WSEndTs(sn, found_end)]
         IN  IF ~event_ok THEN WSRun(sn, ords, FALSE, fetched)
             ELSE IF WSClosed(sn1.event_end_ts)
             THEN LET r == check_weather_resolution(sn1, ords, event_ok2, all_closed, resolution)
                  IN  [r EXCEPT !.calls = fetched \o @]
             ELSE IF ~WSEnters(sn1, sn1.event_end_ts, prob) THEN WSRun(sn1, ords, FALSE, fetched)
             ELSE LET oid == PlacedId(ords, sn1.max_price, placed)
                      bought == fetched \o <<Call("place_limit_buy", "weather", placed)>>
                      ords1 == place_limit_buy(ords, "weather", leader, sn1.max_price,
                                               sn1.size_usdc, placed)
                  IN  IF oid # 0
                      THEN WSRun([sn1 EXCEPT !.leader = leader, !.order_id = oid,
                                             !.order_status = "live", !.price = sn1.max_price,
                                             !.orders_placed = TRUE],
                                 ords1, TRUE, bought)
                      ELSE WSRun(sn1, ords1, FALSE, bought)

----------------------------------------------------------------------------
\* Autocopy of a tracked trader's buys (poller.py, database.py)

\* the tracked traders' addresses, the calendar dates
Traders == {"0xa", "0xb"}
Dates == 1..MaxDays

\* the sizes of a trader's trade, in cents, and its price, in cents
TraderSizes == {1500, 5000, 12000}
CopyPrices == {50}

\* get_daily_big_trade_count at date d
get_daily_big_trade_count(daily, address, d) == daily[address, d]

\* increment_daily_big_trade at date d
increment_daily_big_trade(daily, address, d) == [daily EXCEPT ![address, d] = @ + 1]

\* calc_autocopy_amount, in cents; -1 is None.  count is the day's count of
\* big trades for the trader.
calc_autocopy_amount(trader_usdc, count, price) ==
    LET amount == IF trader_usdc < 100 THEN trader_usdc
                  ELSE IF trader_usdc < 1000 THEN 100
                  ELSE IF trader_usdc < 2000 THEN 200
                  ELSE IF trader_usdc < 5000 THEN 300
                  ELSE 500
    IN  IF trader_usdc >= 5000 /\ count >= 1 THEN 0 - 1
        ELSE IF price > 0 /\ amount < 5 * price THEN 5 * price
        ELSE amount

\* the answers check_order_status can give two seconds after a post-only
\* order was taken
SettledAnswers == {"live", "matched", "cancelled", "none"}

\* the handler takes a post-only order for rejected
CopyRejected(is_limit, status) ==
    is_limit /\ status # "none" /\ status \notin {"live", "matched", "filled"}

\* What _handle_autocopy_buy leaves: the day's counters, the gateway's buys and
\* the external calls.  d is the date when the handler starts, d2 the date
\* after its wait for a post-only order.
handle_autocopy_buy(daily, ords, address, trader_usdc, price, is_limit, placed, status, d, d2) ==
    LET amount == calc_autocopy_amount(trader_usdc, get_daily_big_trade_count(daily, address, d), price)
        Out(dd, oo, cc) == [daily |-> dd, orders |-> oo, calls |-> cc]
        buy == <<Call("place_limit_buy", address, placed)>>
        ords1 == Append(ords, [trader |-> address, date |-> d, usdc |-> trader_usdc,
                               amount |-> amount, st |-> placed])
    IN  IF amount < 0 THEN Out(daily, ords, <<Call("notify", address, "skipped: daily limit")>>)
        ELSE IF amount < 1 THEN Out(daily, ords, <<>>)
        ELSE IF placed = "rejected" THEN Out(daily, ords, buy)
        ELSE IF CopyRejected(is_limit, status)
        THEN Out(daily, ords1,
                 buy \o <<Call("check_order_status", address, status),
                          Call("notify", address, "skipped: rejected")>>)
        ELSE Out(IF trader_usdc >= 5000 THEN increment_daily_big_trade(daily, address, d2)
                 ELSE daily,
                 ords1,
                 buy \o (IF is_limit THEN <<Call("check_order_status", address, status)>> ELSE <<>>)
                     \o <<Call("save_copy_trade", address, amount)>>)

----------------------------------------------------------------------------
\* An input the run does not read is not drawn: it stands at `unread'.
Drawn(read, values, unread) == IF read THEN values ELSE {unread}

----------------------------------------------------------------------------
\* The state after construction: every module-level dict empty, every bot
\* stopped, tracker.db without rows.

\* no function has been applied on its own
NoProbe == [f |-> "none"]

\* the program's state after construction
InitAfter(liq_slugs, mm_slugs) ==
    /\ now = 0
    /\ restarts = 0
    /\ orders = <<>>
    /\ buy_attempted = {}
    /\ lastTick = NoTick
    /\ db = [sniper |-> Null, adaptive |-> Null, liq |-> Null, mm |-> Null, weather |-> Null,
             weather_sniper |-> Null]
    /\ auto_snipers = Null
    /\ sessions = [k \in Markets |-> Null]
    /\ bot_active = FALSE
    /\ bot_stats = AdaptiveStats(0, 0, 0, 0)
    /\ adaptive_trade = Null
    /\ liq_active = FALSE
    /\ liq_stats = ScalpStats(0, 0, 0, 0, 0)
    /\ liq_trade = Null
    /\ liq_traded_slugs = liq_slugs
    /\ liq_frame = Null
    /\ mm_active = FALSE
    /\ mm_stats = ScalpStats(0, 0, 0, 0, 0)
    /\ mm_session = Null
    /\ mm_traded_slugs = mm_slugs
    /\ wt_active = FALSE
    /\ wt_stats = WeatherStats(0, 0, 0, 0, 0)
    /\ wt_positions = Null
    /\ wt_market_cache = Null
    /\ wt_forecast_cache = [td \in WeatherDates |-> Null]
    /\ ws_sniper = Null
    /\ today = 1
    /\ autocopy_daily = [t \in Traders, d \in Dates |-> 0]
    /\ copy_orders = <<>>
    /\ copy_trades = <<>>
    /\ seen_trades = {}
    /\ handled = <<>>
    /\ polls = 0

\* the state after import: no market traded yet
InitProgram == InitAfter({}, {})

Init == InitProgram /\ probe = NoProbe

\* the slugs of n markets that closed before the clock of the model starts
ClosedSlugs(n) == {0 - k : k \in 1..n}

\* the state of a process that has run for some hours: the scalper has traded
\* 30 markets and the MM bot 20, so that each set stands at its limit
InitLongRun == InitAfter(ClosedSlugs(30), ClosedSlugs(20)) /\ probe = NoProbe

\* no strategy is running
Idle ==
    /\ auto_snipers = Null
    /\ ~bot_active
    /\ ~liq_active
    /\ ~mm_active
    /\ ~wt_active
    /\ ws_sniper = Null

----------------------------------------------------------------------------
\* The environment: the clock, the gateway's book, the process

\* The order ids the program holds.  What the book does with an order the
\* program holds no id of is never read by the program, so such an order is
\* left as it stands.
TrackedIds ==
    {sessions[k].order_id : k \in {m \in Markets : sessions[m] # Null}}
    \cup (IF adaptive_trade # Null THEN {adaptive_trade.order_id} ELSE {})
    \cup (IF liq_trade # Null
          THEN {liq_trade.buy_order_id, liq_trade.sell_order_id, liq_trade.stop_order_id}
          ELSE {})
    \cup (IF mm_session # Null
          THEN {mm_session.yes_buy_order, mm_session.no_buy_order,
                mm_session.yes_sell_order, mm_session.no_sell_order}
          ELSE {})
    \cup (IF wt_positions # Null THEN {wt_positions.order_id} ELSE {})
    \cup (IF ws_sniper # Null THEN {ws_sniper.order_id} ELSE {})

Tracked(i) == i \in TrackedIds

\* The seconds into a market window at which the clock is read.  The sniper
\* and the adaptive bot compare the clock with the close less 180, 150, 90
\* and 45 seconds and with the close plus 15, 30, 120 and 600 seconds.
LateOffsets == {0, 60, 120, 180, 600, 660, 720, 780, 840}

\* The liquidity scalper enters between 30 and 600 seconds into the window,
\* gives its entry 60 seconds and closes 60 seconds before the close.
LiqOffsets == {540, 600, 660, 720, 780, 840}

\* The market maker enters between 180 and 600 seconds into the window, gives
\* its buys 30 seconds and closes 60 seconds before the close.
MMOffsets == {540, 600, 630, 660, 720, 780, 840}

\* The weather trader gives its entry 300 seconds and keeps a market for 120
\* and a forecast for 300 seconds.
WeatherOffsets == {0, 360, 420}

\* The weather trader is followed until the market of the next target date
\* has opened.
WeatherHorizon == INTERVAL

Offsets ==
    IF \/ auto_snipers # Null \/ bot_active \/ ws_sniper # Null
       \/ \E k \in Markets : sessions[k] # Null
    THEN LateOffsets
    ELSE IF liq_active THEN LiqOffsets
    ELSE IF mm_active THEN MMOffsets
    ELSE IF wt_active THEN WeatherOffsets
    ELSE {0}

\* the instants after t at which the clock is read
Instants(t) ==
    {u \in (t + 1)..(IF wt_active THEN WeatherHorizon ELSE MaxTime) : (u % INTERVAL) \in Offsets}

\* time passes
Advance ==
    /\ Instants(now) # {}
    /\ liq_frame = Null     \* a pending await is over before the next instant
    /\ now' = CHOOSE u \in Instants(now) : \A v \in Instants(now) : u <= v
    /\ lastTick' = NoTick
    /\ UNCHANGED <<restarts, orders, buy_attempted, db, sniperVars, adaptiveVars, liqVars, mmVars, wtVars, wsVars, copyVars, probeVars>>

\* a resting order is matched in the book
GatewayFill ==
    /\ Quiet
    /\ \E i \in DOMAIN orders :
          /\ orders[i].st = "live"
          /\ Tracked(i)
          /\ orders' = [orders EXCEPT ![i] = [@ EXCEPT !.st = "matched", !.fill = orders[i].price]]
    /\ lastTick' = NoTick
    /\ UNCHANGED <<now, restarts, buy_attempted, db, sniperVars, adaptiveVars, liqVars, mmVars, wtVars, wsVars, copyVars, probeVars>>

\* a resting order expires or is cancelled by the exchange
GatewayCancel ==
    /\ Quiet
    /\ \E i \in DOMAIN orders :
          /\ orders[i].st = "live"
          /\ Tracked(i)
          /\ orders' = [orders EXCEPT ![i] = [@ EXCEPT !.st = "cancelled"]]
    /\ lastTick' = NoTick
    /\ UNCHANGED <<now, restarts, buy_attempted, db, sniperVars, adaptiveVars, liqVars, mmVars, wtVars, wsVars, copyVars, probeVars>>

----------------------------------------------------------------------------
\* The sniper's operations

\* /autosniper: start_auto_sniper
StartAutoSniper ==
    /\ Quiet
    /\ Idle
    /\ auto_snipers' = AutoSniper(0, 0, 0, 0)
    /\ db' = [db EXCEPT !.sniper = SaveConfig(auto_snipers')]
    /\ lastTick' = NoTick
    /\ UNCHANGED <<now, restarts, orders, buy_attempted, sessions, adaptiveVars, liqVars, mmVars, wtVars, wsVars, copyVars, probeVars>>

\* sniper_checker: one _run_auto_sniper
AutoSniperTick ==
    /\ Quiet
    /\ auto_snipers # Null
    /\ auto_snipers.active
    /\ \E live \in LiveMarkets(now) :
       \E sig \in Drawn(SniperDeciding(auto_snipers, live), SniperSignalsAt(orders, live), "nodata") :
       \E hasTok \in Drawn(SniperDeciding(auto_snipers, live) /\ sig \in {"Up", "Down"}, BOOLEAN, TRUE) :
       \E mid \in Drawn(SniperPricing(auto_snipers, live, sig, hasTok), Mids, 0) :
       \E outcome \in Drawn(SniperOrdering(auto_snipers, live, sig, hasTok, mid),
                            BuyOutcomesAt(orders), "rejected") :
          LET r == run_auto_sniper(auto_snipers, sessions, orders, live, sig, hasTok, mid, outcome)
          IN  /\ auto_snipers' = r.auto
              /\ sessions' = r.sessions
              /\ orders' = r.orders
              /\ buy_attempted' = buy_attempted \cup Attempts(r.calls)
              /\ lastTick' = Tick("run_auto_sniper",
                                  IF live = 0 THEN Null ELSE sessions[live], r.calls)
    /\ UNCHANGED <<now, restarts, db, adaptiveVars, liqVars, mmVars, wtVars, wsVars, copyVars, probeVars>>

\* sniper_checker's loop has come to the session of market cid: the
\* auto-snipers are run first, then the active sessions in their order
SessionDue(cid) ==
    /\ sessions[cid] # Null
    /\ sessions[cid].active
    /\ \/ lastTick.h \in {"none", "run_auto_sniper"}
       \/ lastTick.h = "check_session" /\ lastTick.pre.condition_id < cid

\* sniper_checker: one _check_session
SessionTick ==
    /\ \E cid \in Markets :
       /\ SessionDue(cid)
       /\ LET s == sessions[cid]
          IN  \E st \in Drawn(SessionAsks(s), StatusAnswers(orders, s.order_id), "none") :
              \E fill_mid \in Drawn(SessionAsks(s) /\ st = "matched", FillMids, 0) :
              LET s1 == SessionChecked(s, st, fill_mid)
                  on == ~SessionGone(s, st)
              IN  \E mid \in Drawn(on /\ SessionWatching(s1), HeldMids, 0) :
                  \E sell_ok \in Drawn(on /\ SniperStopLoss(s1, mid), BOOLEAN, TRUE) :
                  \E api \in Drawn(on /\ ~SniperStopLoss(s1, mid) /\ SessionResolving(s1),
                                   ApiAnswers, Null) :
                  \E btc \in Drawn(/\ on /\ ~SniperStopLoss(s1, mid) /\ SessionResolving(s1)
                                   /\ ResolvedVia(s1, api, "none") # "API"
                                   /\ FallbackDue(s1),
                                   BtcAnswers, "none") :
                  \E cancel_ok \in Drawn(on /\ SessionLate(s1), BOOLEAN, TRUE) :
                     LET r == check_session(auto_snipers, s, orders, st, fill_mid, mid,
                                            sell_ok, api, btc, cancel_ok)
                     IN  /\ auto_snipers' = r.auto
                         /\ sessions' = [sessions EXCEPT ![cid] = r.session]
                         /\ orders' = r.orders
                         /\ db' = IF r.saved THEN [db EXCEPT !.sniper = SaveConfig(r.auto)] ELSE db
                         /\ lastTick' = Tick("check_session", s, r.calls)
    /\ UNCHANGED <<now, restarts, buy_attempted, adaptiveVars, liqVars, mmVars, wtVars, wsVars, copyVars, probeVars>>

NextSniper == StartAutoSniper \/ AutoSniperTick \/ SessionTick

\* A run that raises is recorded with the call that raised.  The model lets a
\* run raise where it reads its first answer, before it has changed anything.
RaisedCall(a) == Call("raise", a, "error")

\* sniper_checker catches what a run raises inside the loop and goes on
\* with the loop; the run is kept as any other run of handler h
RaisedRunEndsLoop(h, pre, a) == Tick("sniper_loop_error", pre, <<RaisedCall(a)>>)
RaisedRun(h, pre, a) == Tick(h, pre, <<RaisedCall(a)>>)

\* the session after a run on it raised: the tenth error deactivates and
\* removes it
SessionRaised(s) ==
    IF s.error_count + 1 >= 10 THEN Null ELSE [s EXCEPT !.error_count = @ + 1]

\* sniper_checker: one _run_auto_sniper that raises
AutoSniperTickRaises ==
    /\ Quiet
    /\ auto_snipers # Null
    /\ auto_snipers.active
    /\ lastTick' = RaisedRun("run_auto_sniper", Null, 0)
    /\ UNCHANGED <<now, restarts, orders, buy_attempted, db, sniperVars, adaptiveVars, liqVars,
                   mmVars, wtVars, wsVars, copyVars, probeVars>>

\* sniper_checker: one _check_session that raises
SessionTickRaises ==
    /\ \E cid \in Markets :
       /\ SessionDue(cid)
       /\ sessions' = [sessions EXCEPT ![cid] = SessionRaised(sessions[cid])]
       /\ lastTick' = RaisedRun("check_session", sessions[cid], cid)
    /\ UNCHANGED <<now, restarts, orders, buy_attempted, db, auto_snipers, adaptiveVars, liqVars,
                   mmVars, wtVars, wsVars, copyVars, probeVars>>

\* /snipe: start_manual_snipe on market cid; dated is whether the event slug
\* given ends in the market's start time
ManualSnipe(cid) ==
    /\ Quiet
    /\ ~bot_active /\ ~liq_active /\ ~mm_active /\ ~wt_active /\ ws_sniper = Null
    /\ cid \in Markets
    /\ sessions[cid] = Null
    /\ \E outcome \in Directions(orders, cid), dated \in BOOLEAN, placed \in BuyOutcomesAt(orders) :
          LET a == AutoSniper(0, 0, 0, 0)
              oid == PlacedId(orders, a.entry_price, placed)
          IN  /\ orders' = place_limit_buy(orders, cid, outcome, a.entry_price, a.size_usdc, placed)
              /\ sessions' = IF oid = 0 THEN sessions
                             ELSE [sessions EXCEPT ![cid] = ManualSession(cid, outcome, oid, dated)]
              /\ buy_attempted' = buy_attempted \cup {cid}
    /\ lastTick' = NoTick
    /\ UNCHANGED <<now, restarts, db, auto_snipers, adaptiveVars, liqVars, mmVars, wtVars, wsVars, copyVars, probeVars>>

\* /snipe on the market of the current window, whose close the clock is
\* followed past by more than the longest wait
StartManualSnipe ==
    /\ END_TS(CurrentMarket(now)) + 600 < MaxTime
    /\ ManualSnipe(CurrentMarket(now))

\* /snipe on the market of the next window
StartManualSnipeAhead == ManualSnipe(CurrentMarket(now) + 1)

----------------------------------------------------------------------------
\* The adaptive bot's operations

\* /adaptive: start_adaptive
StartAdaptive ==
    /\ Quiet
    /\ Idle
    /\ bot_active' = TRUE
    /\ db' = [db EXCEPT !.adaptive = AdaptiveSaveState(TRUE, bot_stats)]
    /\ lastTick' = NoTick
    /\ UNCHANGED <<now, restarts, orders, buy_attempted, bot_stats, adaptive_trade,
                   sniperVars, liqVars, mmVars, wtVars, wsVars, copyVars, probeVars>>

\* adaptive_checker: one _run_cycle, which checks the active trade when there
\* is one and looks for an entry when there is none
AdaptiveTick ==
    /\ Quiet
    /\ bot_active
    /\ \E r \in
          IF adaptive_trade # Null
          THEN LET t == adaptive_trade
                   asks == t.order_status = "live"
                   looks == t.order_status = "matched" /\ TradeResolving(t)
               IN  {check_active_trade(bot_stats, t, orders, st, fill_mid, api, btc, cancel_ok) :
                      <<st, fill_mid, api, btc, cancel_ok>> \in
                        {x \in Drawn(asks, StatusAnswers(orders, t.order_id), "none")
                               \X Drawn(asks, FillMids, 0)
                               \X Drawn(looks, ApiAnswers, Null)
                               \X Drawn(looks /\ now > t.market_end_ts + 120, BtcAnswers, "none")
                               \X Drawn(asks /\ now > t.market_end_ts + 30, BOOLEAN, TRUE) :
                           /\ x[1] # "matched" => x[2] = 0
                           /\ x[1] = "matched" => x[5] = TRUE
                           /\ (x[3] # Null /\ x[3].res # "") => x[4] = "none"}}
          ELSE {run_cycle(bot_stats, orders, live, strategy, direction, hasTok, mid, outcome) :
                  <<live, strategy, direction, hasTok, mid, outcome>> \in
                    {x \in LiveMarkets(now)
                           \X {"skip", "confident", "moderate", "early"}
                           \X {"Up", "Down"} \X BOOLEAN \X Mids \X PlaceOutcomes :
                       /\ x[2] \in Drawn(AdaptiveDeciding(bot_stats, x[1]),
                                         StrategiesAt(END_TS(x[1]) - now), "skip")
                       /\ x[3] \in Drawn(AdaptiveDeciding(bot_stats, x[1]) /\ x[2] # "skip",
                                         Directions(orders, x[1]), "Up")
                       /\ x[4] \in Drawn(AdaptiveDeciding(bot_stats, x[1]) /\ x[2] # "skip",
                                         BOOLEAN, TRUE)
                       /\ x[5] \in Drawn(AdaptivePricing(bot_stats, x[1], x[2], x[4]), Mids, 0)
                       /\ x[6] \in Drawn(AdaptiveOrdering(bot_stats, x[1], x[2], x[4], x[5]),
                                         BuyOutcomesAt(orders), "rejected")}} :
          /\ bot_stats' = r.stats
          /\ adaptive_trade' = r.trade
          /\ orders' = r.orders
          /\ buy_attempted' = buy_attempted \cup Attempts(r.calls)
          /\ db' = IF r.saved THEN [db EXCEPT !.adaptive = AdaptiveSaveState(bot_active, r.stats)]
                   ELSE db
          /\ lastTick' = Tick("run_cycle", adaptive_trade, r.calls)
    /\ UNCHANGED <<now, restarts, bot_active, sniperVars, liqVars, mmVars, wtVars, wsVars, copyVars, probeVars>>

NextAdaptive == StartAdaptive \/ AdaptiveTick

----------------------------------------------------------------------------
\* The liquidity scalper's operations

\* the mids a price query may answer while the scalper holds a position
LiqMids == {0, 40, 50}

\* /liq_bot start: start_liq
StartLiq ==
    /\ Quiet
    /\ Idle
    /\ liq_active' = TRUE
    /\ db' = [db EXCEPT !.liq = ScalpSaveState(TRUE, liq_stats)]
    /\ lastTick' = NoTick
    /\ UNCHANGED <<now, restarts, orders, buy_attempted, liq_stats, liq_trade,
                   liq_traded_slugs, liq_frame, sniperVars, adaptiveVars, mmVars, wtVars, wsVars, copyVars, probeVars>>

\* liq_checker: one _run_liq_cycle looking for an entry
LiqEntryTick ==
    /\ Quiet
    /\ liq_active
    /\ liq_trade = Null
    /\ liq_frame = Null
    /\ \E live \in LiveMarkets(now) :
       \E book_up \in Drawn(LiqDeciding(liq_traded_slugs, live), BooksOf("Up"), Null) :
       \E book_down \in Drawn(LiqDeciding(liq_traded_slugs, live), BooksOf("Down"), Null) :
       \E outcome \in Drawn(LiqOrdering(liq_traded_slugs, live, book_up, book_down),
                            BuyOutcomesAt(orders), "rejected") :
          LET r == run_liq_cycle(liq_traded_slugs, orders, live, book_up, book_down, outcome)
          IN  /\ liq_trade' = r.trade
              /\ liq_traded_slugs' = r.traded
              /\ orders' = r.orders
              /\ buy_attempted' = buy_attempted \cup Attempts(r.calls)
              /\ db' = IF r.saved THEN [db EXCEPT !.liq = ScalpSaveState(liq_active, liq_stats)]
                       ELSE db
              /\ lastTick' = Tick("run_liq_cycle", Null, r.calls)
    /\ UNCHANGED <<now, restarts, liq_active, liq_stats, liq_frame, sniperVars, adaptiveVars, mmVars,
                   wtVars, wsVars, copyVars, probeVars>>

\* liq_checker: one _run_liq_cycle managing the active trade
LiqManageTick ==
    /\ Quiet
    /\ liq_active
    /\ liq_trade # Null
    /\ liq_frame = Null
    /\ LET t == liq_trade
       IN  \E st_buy \in Drawn(LiqAsks(t), StatusAnswers(orders, t.buy_order_id), "none") :
           \E sell_out \in Drawn(LiqSelling(t, st_buy), SellOutcomesAt(orders), "rejected") :
           \E st_sell \in Drawn(LiqWatching(t, st_buy),
                                StatusAnswers(orders, Max(t.sell_order_id, 1)), "none") :
           \E mid \in Drawn(\/ LiqSelling(t, st_buy) /\ SoldId(orders, sell_out) = 0
                            \/ LiqChecking(t, st_buy, st_sell), LiqMids, 0) :
           \E stop_out \in Drawn(LiqChecking(t, st_buy, st_sell) /\ LiqStopLoss(t, mid),
                                 SellOutcomesAt(orders), "rejected") :
           \E st_stop \in Drawn(LiqStopAsks(t, st_buy, st_sell, mid),
                                StatusAnswers(orders, Max(t.stop_order_id, 1)), "none") :
           \E end_mid \in Drawn(LiqEmergency(t, st_buy, st_sell, mid, st_stop), LiqMids, 0) :
           \E cancel_ok \in Drawn(\/ LiqAsks(t) /\ st_buy # "matched" /\ now - t.entered_at > 60
                                  \/ LiqChecking(t, st_buy, st_sell) /\ LiqStopLoss(t, mid)
                                  \/ LiqEmergency(t, st_buy, st_sell, mid, st_stop),
                                  BOOLEAN, TRUE) :
              LET r == manage_liq_trade(liq_stats, t, orders, st_buy, sell_out, st_sell, mid,
                                        stop_out, st_stop, end_mid, cancel_ok)
              IN  /\ liq_stats' = r.stats
                  /\ liq_trade' = r.trade
                  /\ orders' = r.orders
                  /\ db' = IF r.saved THEN [db EXCEPT !.liq = ScalpSaveState(liq_active, r.stats)]
                           ELSE db
                  /\ lastTick' = Tick("manage_liq_trade", t, r.calls)
    /\ UNCHANGED <<now, restarts, buy_attempted, liq_active, liq_traded_slugs, liq_frame,
                   sniperVars, adaptiveVars, mmVars, wtVars, wsVars, copyVars, probeVars>>

NextLiq == StartLiq \/ LiqEntryTick \/ LiqManageTick

\* liq_checker: a _manage_liq_trade that finds its buy filled and is suspended
\* at the await of its notification, while other tasks of the event loop run
LiqManageSuspends ==
    /\ Quiet
    /\ liq_active
    /\ liq_trade # Null
    /\ liq_frame = Null
    /\ LiqAsks(liq_trade)
    /\ "matched" \in StatusAnswers(orders, liq_trade.buy_order_id)
    /\ liq_trade' = [liq_trade EXCEPT !.buy_status = "matched"]
    /\ liq_frame' = liq_trade'
    /\ lastTick' = Tick("manage_liq_trade", liq_trade,
                        <<Call("check_order_status", liq_trade.buy_order_id, "matched"),
                          Call("notify", liq_trade.condition_id, "LIQ FILLED")>>)
    /\ UNCHANGED <<now, restarts, orders, buy_attempted, db, liq_active, liq_stats,
                   liq_traded_slugs, sniperVars, adaptiveVars, mmVars, wtVars, wsVars, copyVars,
                   probeVars>>

\* the orders stop_liq cancels
LiqOrderIds(t) ==
    (IF t.buy_order_id # 0 THEN <<t.buy_order_id>> ELSE <<>>)
    \o (IF t.sell_order_id # 0 THEN <<t.sell_order_id>> ELSE <<>>)
    \o (IF t.stop_order_id # 0 THEN <<t.stop_order_id>> ELSE <<>>)

\* stop_liq, from another task
StopLiq ==
    /\ liq_active
    /\ liq_active' = FALSE
    /\ \E cancel_ok \in Drawn(liq_trade # Null, BOOLEAN, TRUE) :
          orders' = IF liq_trade = Null THEN orders
                    ELSE CancelAll(orders, LiqOrderIds(liq_trade), cancel_ok)
    /\ liq_trade' = Null
    /\ db' = [db EXCEPT !.liq = ScalpSaveState(FALSE, liq_stats)]
    /\ UNCHANGED <<now, restarts, buy_attempted, lastTick, liq_stats, liq_traded_slugs, liq_frame,
                   sniperVars, adaptiveVars, mmVars, wtVars, wsVars, copyVars, probeVars>>

\* liq_checker: the suspended _manage_liq_trade goes on after its await, with
\* its local t.  _active_trade, when stop_liq has set it to None, stays None.
LiqManageResumes ==
    /\ liq_frame # Null
    /\ LET t == liq_frame
       IN  \E sell_out \in Drawn(LiqSelling(t, "none"), SellOutcomesAt(orders), "rejected") :
           \E st_sell \in Drawn(LiqWatching(t, "none"),
                                StatusAnswers(orders, Max(t.sell_order_id, 1)), "none") :
           \E mid \in Drawn(\/ LiqSelling(t, "none") /\ SoldId(orders, sell_out) = 0
                            \/ LiqChecking(t, "none", st_sell), LiqMids, 0) :
           \E stop_out \in Drawn(LiqChecking(t, "none", st_sell) /\ LiqStopLoss(t, mid),
                                 SellOutcomesAt(orders), "rejected") :
           \E st_stop \in Drawn(LiqStopAsks(t, "none", st_sell, mid),
                                StatusAnswers(orders, Max(t.stop_order_id, 1)), "none") :
           \E end_mid \in Drawn(LiqEmergency(t, "none", st_sell, mid, st_stop), LiqMids, 0) :
           \E cancel_ok \in Drawn(\/ LiqChecking(t, "none", st_sell) /\ LiqStopLoss(t, mid)
                                  \/ LiqEmergency(t, "none", st_sell, mid, st_stop),
                                  BOOLEAN, TRUE) :
              LET r == manage_liq_trade(liq_stats, t, orders, "none", sell_out, st_sell, mid,
                                        stop_out, st_stop, end_mid, cancel_ok)
              IN  /\ liq_stats' = r.stats
                  /\ liq_trade' = IF liq_trade = Null THEN Null ELSE r.trade
                  /\ orders' = r.orders
                  /\ db' = IF r.saved THEN [db EXCEPT !.liq = ScalpSaveState(liq_active, r.stats)]
                           ELSE db
                  /\ lastTick' = Tick("manage_liq_trade", t, r.calls)
    /\ liq_frame' = Null
    /\ UNCHANGED <<now, restarts, buy_attempted, liq_active, liq_traded_slugs,
                   sniperVars, adaptiveVars, mmVars, wtVars, wsVars, copyVars, probeVars>>

----------------------------------------------------------------------------
\* The market maker's operations

\* the mids a price query may answer before the market maker enters and while
\* it holds a position
MMEntryMids == {0, 50, 60}
MMMids == {0, 40, 50}

\* /mm_bot start: start_mm
StartMM ==
    /\ Quiet
    /\ Idle
    /\ mm_active' = TRUE
    /\ db' = [db EXCEPT !.mm = ScalpSaveState(TRUE, mm_stats)]
    /\ lastTick' = NoTick
    /\ UNCHANGED <<now, restarts, orders, buy_attempted, mm_stats, mm_session,
                   mm_traded_slugs, sniperVars, adaptiveVars, liqVars, wtVars, wsVars, copyVars, probeVars>>

\* mm_checker: one _run_mm_cycle looking for an entry
MMEntryTick ==
    /\ Quiet
    /\ mm_active
    /\ mm_session = Null
    /\ \E live \in LiveMarkets(now) :
       \E should_enter \in Drawn(MMDeciding(mm_traded_slugs, live), BOOLEAN, FALSE) :
       \E mid_yes \in Drawn(MMDeciding(mm_traded_slugs, live) /\ should_enter, MMEntryMids, 0) :
       \E mid_no \in Drawn(MMDeciding(mm_traded_slugs, live) /\ should_enter, MMEntryMids, 0) :
       \E out_yes \in Drawn(MMOrdering(mm_traded_slugs, live, should_enter, mid_yes, mid_no),
                            BuyOutcomesAt(orders), "rejected") :
       \E out_no \in Drawn(/\ MMOrdering(mm_traded_slugs, live, should_enter, mid_yes, mid_no)
                           /\ out_yes # "rejected",
                           BuyOutcomesAt(MMAfterYes(orders, live, out_yes)), "rejected") :
       \E cancel_ok \in Drawn(out_yes = "live" /\ out_no = "rejected", BOOLEAN, TRUE) :
       \E kept \in Drawn(/\ MMOrdering(mm_traded_slugs, live, should_enter, mid_yes, mid_no)
                         /\ Cardinality(mm_traded_slugs \cup {live}) > 20,
                         MMKept(mm_traded_slugs \cup {live}), {}) :
          LET r == run_mm_cycle(mm_traded_slugs, orders, live, should_enter, mid_yes, mid_no,
                                out_yes, out_no, cancel_ok, kept)
          IN  /\ mm_session' = r.session
              /\ mm_traded_slugs' = r.traded
              /\ orders' = r.orders
              /\ buy_attempted' = buy_attempted \cup Attempts(r.calls)
              /\ db' = IF r.saved THEN [db EXCEPT !.mm = ScalpSaveState(mm_active, mm_stats)]
                       ELSE db
              /\ lastTick' = Tick("run_mm_cycle", Null, r.calls)
    /\ UNCHANGED <<now, restarts, mm_active, mm_stats, sniperVars, adaptiveVars, liqVars, wtVars, wsVars, copyVars, probeVars>>

\* the runs of _manage_session on session s, over what the gateway and the
\* price queries may answer
MMRuns(s) ==
    IF s.phase = "buying"
    THEN {mm_buying(mm_stats, s, orders, x[1], x[2], x[3]) :
            x \in {y \in Drawn(s.yes_buy_status = "live",
                               StatusAnswers(orders, s.yes_buy_order), "none")
                         \X Drawn(s.no_buy_status = "live",
                                  StatusAnswers(orders, s.no_buy_order), "none")
                         \X BOOLEAN :
                     ~MMTimedOut(MMBought(s, y[1], y[2])) => y[3]}}
    ELSE IF s.phase = "selling"
    THEN {mm_selling(mm_stats, s, orders, x[1], x[2]) :
            x \in {y \in PlaceOutcomes \X PlaceOutcomes :
                     /\ y[1] \in SellOutcomesAt(orders)
                     /\ y[2] \in SellOutcomesAt(MMAfterYesSell(s, orders, y[1]))}}
    ELSE {mm_monitoring(mm_stats, s, orders, x[1], x[2], x[3], x[4], x[5], x[6], x[7]) :
            x \in {y \in Drawn(s.yes_sell_order # 0 /\ s.yes_sell_status = "live",
                               StatusAnswers(orders, Max(s.yes_sell_order, 1)), "none")
                         \X Drawn(s.no_sell_order # 0 /\ s.no_sell_status = "live",
                                  StatusAnswers(orders, Max(s.no_sell_order, 1)), "none")
                         \X MMMids \X MMMids \X MMMids \X MMMids \X BOOLEAN :
                     LET s1 == MMSold(s, y[1], y[2])
                         a == s1.yes_closed /\ ~s1.no_closed
                         b == s1.no_closed /\ ~s1.yes_closed
                         late == s.market_end_ts - now <= 60
                     IN  /\ y[3] \in Drawn(a, MMMids, 0)
                         /\ y[4] \in Drawn(b, MMMids, 0)
                         /\ y[5] \in Drawn(late /\ ~s1.yes_closed /\ ~(b /\ MMStopLoss(y[4])),
                                           MMMids, 0)
                         /\ y[6] \in Drawn(late /\ ~s1.no_closed /\ ~(a /\ MMStopLoss(y[3])),
                                           MMMids, 0)
                         /\ y[7] \in Drawn(\/ a /\ MMStopLoss(y[3])
                                           \/ b /\ MMStopLoss(y[4])
                                           \/ late, BOOLEAN, TRUE)}}

\* mm_checker: one _run_mm_cycle managing the active session
MMManageTick ==
    /\ Quiet
    /\ mm_active
    /\ mm_session # Null
    /\ \E r \in MMRuns(mm_session) :
          /\ mm_stats' = r.stats
          /\ mm_session' = r.session
          /\ orders' = r.orders
          /\ db' = IF r.saved THEN [db EXCEPT !.mm = ScalpSaveState(mm_active, r.stats)] ELSE db
          /\ lastTick' = Tick("manage_session", mm_session, r.calls)
    /\ UNCHANGED <<now, restarts, buy_attempted, mm_active, mm_traded_slugs,
                   sniperVars, adaptiveVars, liqVars, wtVars, wsVars, copyVars, probeVars>>

NextMM == StartMM \/ MMEntryTick \/ MMManageTick

----------------------------------------------------------------------------
\* The weather trader's operations

\* the highs a forecast may give, the mids a price query may answer
WeatherTemps == {10, 11, 13}
WeatherMids == {0, 50, 95}

\* /weather_trade start: start_weather
StartWeather ==
    /\ Quiet
    /\ Idle
    /\ wt_active' = TRUE
    /\ db' = [db EXCEPT !.weather = WeatherSaveState(TRUE, wt_stats, wt_positions)]
    /\ lastTick' = NoTick
    /\ UNCHANGED <<now, restarts, orders, buy_attempted, wt_stats, wt_positions,
                   wt_market_cache, wt_forecast_cache, sniperVars, adaptiveVars, liqVars, mmVars, wsVars, copyVars, probeVars>>

\* the weather market a request finds: the open event of the first target
\* date, and of the second once that one has opened
WeatherMarkets == {WeatherMarket(IF now < WeatherHorizon THEN 1 ELSE 2)}

\* weather_checker: one _trade_city
WeatherTick ==
    /\ Quiet
    /\ wt_active
    /\ LET pos == wt_positions
           mc == wt_market_cache
           fcs == wt_forecast_cache
           on == ~WeatherThrottled(pos)
       IN  \E answer \in Drawn(on /\ MarketFetched(mc), {Null} \cup WeatherMarkets, Null) :
           LET market == find_weather_market(mc, answer).market
               found == on /\ market # Null
               pos1 == WeatherDated(pos, market)
           IN  \E st \in Drawn(found /\ WeatherAsks(pos1),
                               StatusAnswers(orders, Max(pos.order_id, 1)), "none") :
               \E fc \in Drawn(found /\ ForecastFetched(fcs, market.target_date),
                               {NoTemp} \cup WeatherTemps, NoTemp) :
               LET stage == WeatherStage(pos, mc, fcs, answer, st, fc)
                   sells == stage = "sell_switch"
                   cancels == \/ found /\ pos # Null /\ pos1 = Null /\ ~pos.filled
                              \/ found /\ WeatherTimedOut(pos1, st)
                              \/ stage = "cancel_switch"
               IN  \E mid_sw \in Drawn(sells, WeatherMids \ {95}, 0) :
                   \E real_balance \in Drawn(sells, {0, pos.shares}, 0) :
                   \E sell_out \in Drawn(sells, SellOutcomesAt(orders), "rejected") :
                   \E mid \in Drawn(WeatherEntering(stage, sell_out), WeatherMids, 0) :
                   \E buy_out \in Drawn(WeatherEntering(stage, sell_out) /\ mid # 0 /\ mid <= 90,
                                        BuyOutcomesAt(orders), "rejected") :
                   \E cancel_ok \in Drawn(cancels, BOOLEAN, TRUE) :
                      LET r == trade_city(wt_stats, pos, mc, fcs, orders, answer, st, fc, mid_sw,
                                          real_balance, sell_out, mid, buy_out, cancel_ok)
                      IN  /\ wt_stats' = r.stats
                          /\ wt_positions' = r.pos
                          /\ wt_market_cache' = r.mcache
                          /\ wt_forecast_cache' = r.fcache
                          /\ orders' = r.orders
                          /\ buy_attempted' = buy_attempted \cup Attempts(r.calls)
                          /\ db' = IF r.row # Null THEN [db EXCEPT !.weather = r.row] ELSE db
                          /\ lastTick' = Tick("trade_city", wt_positions, r.calls)
    /\ UNCHANGED <<now, restarts, wt_active, sniperVars, adaptiveVars, liqVars, mmVars, wsVars, copyVars, probeVars>>

NextWeather == StartWeather \/ WeatherTick

----------------------------------------------------------------------------
\* The weather sniper's operations

\* /weather: start_weather_sniper on the event that closes with the first
\* window; has_end is whether its markets carry an end date
StartWeatherSniper ==
    /\ Quiet
    /\ Idle
    /\ \A k \in Markets : sessions[k] = Null
    /\ CurrentMarket(now) = 1
    /\ \E has_end \in BOOLEAN :
          LET sn == WeatherSniper(IF has_end THEN END_TS(1) ELSE 0)
          IN  /\ ws_sniper' = sn
              /\ db' = [db EXCEPT !.weather_sniper = SaveWeatherConfig(sn)]
    /\ lastTick' = NoTick
    /\ UNCHANGED <<now, restarts, orders, buy_attempted, sniperVars, adaptiveVars, liqVars,
                   mmVars, wtVars, copyVars, probeVars>>

\* What a request for the event can come to at time t: from two minutes after
\* the close on the API answers and every market of the event is closed.
WSAnswers(t) == IF t > END_TS(1) + 120 THEN {TRUE} ELSE BOOLEAN

\* weather_checker: one _check_weather_sniper
WeatherSniperTick ==
    /\ Quiet
    /\ ws_sniper # Null
    /\ ws_sniper.active
    /\ LET sn == ws_sniper
       IN  \E st \in Drawn(WSAsks(sn), StatusAnswers(orders, Max(sn.order_id, 1)), "none") :
           \E event_ok \in Drawn(WSMonitors(sn), WSAnswers(now), FALSE) :
           \E found_end \in Drawn(event_ok /\ sn.event_end_ts <= 0, BOOLEAN, FALSE) :
           LET end_ts == WSEndTs(sn, found_end)
               enters == event_ok /\ ~WSClosed(end_ts)
               resolves == \/ ~sn.resolved /\ sn.filled_outcome # 0
                           \/ event_ok /\ WSClosed(end_ts)
           IN  \E prob \in Drawn(enters, WSProbs, 0) :
               \E leader \in Drawn(enters /\ WSEnters(sn, end_ts, prob), WSOutcomes, 0) :
               \E placed \in Drawn(enters /\ WSEnters(sn, end_ts, prob),
                                   BuyOutcomesAt(orders), "rejected") :
               \E event_ok2 \in Drawn(resolves, WSAnswers(now), FALSE) :
               \E all_closed \in Drawn(event_ok2 /\ now > END_TS(1), WSAnswers(now), FALSE) :
               \E resolution \in Drawn(all_closed /\ sn.filled_outcome # 0, WSResolutions, "") :
                  LET r == check_weather_sniper(sn, orders, st, event_ok, found_end, leader, prob,
                                                placed, event_ok2, all_closed, resolution)
                  IN  /\ ws_sniper' = r.sniper
                      /\ orders' = r.orders
                      /\ buy_attempted' = buy_attempted \cup Attempts(r.calls)
                      /\ db' = IF r.saved
                               THEN [db EXCEPT !.weather_sniper = SaveWeatherConfig(r.sniper)]
                               ELSE db
                      /\ lastTick' = Tick("check_weather_sniper", sn, r.calls)
    /\ UNCHANGED <<now, restarts, sniperVars, adaptiveVars, liqVars, mmVars, wtVars, copyVars, probeVars>>

NextWeatherSniper == StartWeatherSniper \/ WeatherSniperTick

----------------------------------------------------------------------------
\* The autocopy handler's operations

\* midnight UTC passes
NextDay ==
    /\ Quiet
    /\ today < MaxDays
    /\ today' = today + 1
    /\ UNCHANGED <<now, restarts, orders, buy_attempted, lastTick, db, sniperVars, adaptiveVars,
                   liqVars, mmVars, wtVars, wsVars, autocopy_daily, copy_orders, copy_trades,
                   pollVars, probeVars>>

\* poll_traders: one _handle_autocopy_buy for a buy of a tracked trader;
\* midnight may pass while the handler waits for a post-only order to settle
HandleAutocopyBuy ==
    /\ \E address \in Traders, trader_usdc \in TraderSizes, price \in CopyPrices, is_limit \in BOOLEAN :
       \E placed \in (IF Len(copy_orders) < MaxCopies THEN PlaceOutcomes ELSE {"rejected"}) :
       LET count == get_daily_big_trade_count(autocopy_daily, address, today)
           posts == calc_autocopy_amount(trader_usdc, count, price) >= 1 /\ placed # "rejected"
       IN  \E status \in Drawn(posts /\ is_limit, SettledAnswers, "none") :
           \E midnight \in Drawn(posts /\ is_limit /\ today < MaxDays, BOOLEAN, FALSE) :
              LET d2 == IF midnight THEN today + 1 ELSE today
                  r == handle_autocopy_buy(autocopy_daily, copy_orders, address, trader_usdc,
                                           price, is_limit, placed, status, today, d2)
              IN  /\ autocopy_daily' = r.daily
                  /\ copy_orders' = r.orders
                  /\ today' = d2
                  /\ lastTick' = [h |-> "handle_autocopy_buy",
                                  pre |-> [trader |-> address, usdc |-> trader_usdc, date |-> today,
                                           count |-> count],
                                  again |-> FALSE, calls |-> r.calls]
    /\ UNCHANGED <<now, restarts, orders, buy_attempted, db, sniperVars, adaptiveVars,
                   liqVars, mmVars, wtVars, wsVars, copy_trades, pollVars, probeVars>>

NextAutocopy == NextDay \/ HandleAutocopyBuy

----------------------------------------------------------------------------
\* Copy trades and their automatic sale (poller.py, database.py).  Shares in
\* hundredths of a share, prices in cents, money in hundredths of a cent.

\* the addresses as the activity feed spells them, the market and the
\* outcomes of copy trades, the price of a trader's sell
Addresses == {"0xa", "0xA", "0xb"}
CopyMarkets == {1}
CopyOutcomes == {"Yes", "No"}
SellPrices == {60}

\* trader_address.lower()
AddressLower(address) == IF address = "0xA" THEN "0xa" ELSE address

\* save_copy_trade: a row of 5 shares bought for $2.50
save_copy_trade(rows, address, cid, outcome, status) ==
    Append(rows, [id |-> Len(rows) + 1, trader_address |-> AddressLower(address),
                  condition_id |-> cid, outcome |-> outcome, shares |-> 500,
                  usdc_spent |-> 25000, status |-> status, sell_price |-> 0,
                  sell_usdc |-> 0, pnl_usdc |-> 0, pnl_pct |-> 0])

\* find_open_copy_trades without its filter on the status
find_all_copy_trades(rows, address, cid, outcome) ==
    {i \in DOMAIN rows :
        /\ rows[i].trader_address = AddressLower(address)
        /\ rows[i].condition_id = cid
        /\ rows[i].outcome = outcome}

\* find_open_copy_trades: the ids of the OPEN rows of a trader, market and
\* outcome
find_open_copy_trades(rows, address, cid, outcome) ==
    {i \in DOMAIN rows :
        /\ rows[i].trader_address = AddressLower(address)
        /\ rows[i].condition_id = cid
        /\ rows[i].outcome = outcome
        /\ rows[i].status = "OPEN"}

\* close_copy_trade
close_copy_trade(rows, id, sell_price, sell_usdc, pnl_usdc, pnl_pct) ==
    [rows EXCEPT ![id] = [@ EXCEPT !.status = "CLOSED", !.sell_price = sell_price,
                                   !.sell_usdc = sell_usdc, !.pnl_usdc = pnl_usdc,
                                   !.pnl_pct = pnl_pct]]

\* the body of _auto_sell_copies' loop for one copy: accepted is whether
\* place_market_sell returned a result
auto_sell_copy(rows, id, sell_price, accepted) ==
    LET shares == rows[id].shares
        invested == rows[id].usdc_spent
        sell_usdc == shares * sell_price
        pnl_usdc == sell_usdc - invested
        pnl_pct == IF invested > 0 THEN (pnl_usdc * 100) \div invested ELSE 0
    IN  IF accepted THEN close_copy_trade(rows, id, sell_price, sell_usdc, pnl_usdc, pnl_pct)
        ELSE close_copy_trade(rows, id, sell_price, 0, 0 - invested, 0 - 100)

\* _auto_sell_copies' loop over the copies found, in the order of their ids
RECURSIVE AutoSellLoop(_, _, _, _)
AutoSellLoop(rows, ids, sell_price, accepted) ==
    IF ids = {} THEN [rows |-> rows, calls |-> <<>>]
    ELSE LET id == CHOOSE i \in ids : \A j \in ids : i <= j
             rest == AutoSellLoop(auto_sell_copy(rows, id, sell_price, accepted[id]),
                                  ids \ {id}, sell_price, accepted)
         IN  [rows |-> rest.rows,
              calls |-> <<Call("place_market_sell", id, OkFail(accepted[id])),
                          Call("close_copy_trade", id, "CLOSED")>> \o rest.calls]

\* _auto_sell_copies for a SELL or REDEEM of a tracked trader
auto_sell_copies(rows, address, cid, outcome, sell_price, accepted) ==
    AutoSellLoop(rows, find_open_copy_trades(rows, address, cid, outcome), sell_price, accepted)

\* a copy trade is recorded: by the autocopy handler or the copy button
\* (OPEN), or as one whose order is not known to be filled (PENDING)
SaveCopyTrade ==
    /\ Len(copy_trades) < MaxCopyTrades
    /\ \E address \in Addresses, cid \in CopyMarkets, outcome \in CopyOutcomes,
          status \in {"OPEN", "PENDING"} :
          copy_trades' = save_copy_trade(copy_trades, address, cid, outcome, status)
    /\ lastTick' = NoTick
    /\ UNCHANGED <<now, restarts, orders, buy_attempted, db, sniperVars, adaptiveVars,
                   liqVars, mmVars, wtVars, wsVars, today, autocopy_daily, copy_orders,
                   pollVars, probeVars>>

\* _send_notification for a SELL or REDEEM: one _auto_sell_copies
AutoSellCopies ==
    /\ \E address \in Addresses, cid \in CopyMarkets, outcome \in CopyOutcomes,
          sell_price \in SellPrices :
       \E accepted \in {f \in [1..MaxCopyTrades -> BOOLEAN] :
                           \A i \in 1..MaxCopyTrades :
                               i \notin find_open_copy_trades(copy_trades, address, cid, outcome)
                                   => f[i]} :
          LET r == auto_sell_copies(copy_trades, address, cid, outcome, sell_price, accepted)
          IN  /\ copy_trades' = r.rows
              /\ lastTick' = [h |-> "auto_sell_copies",
                              pre |-> [rows |-> copy_trades, address |-> address,
                                       condition_id |-> cid, outcome |-> outcome,
                                       sell_price |-> sell_price],
                              again |-> FALSE, calls |-> r.calls]
    /\ UNCHANGED <<now, restarts, orders, buy_attempted, db, sniperVars, adaptiveVars,
                   liqVars, mmVars, wtVars, wsVars, today, autocopy_daily, copy_orders,
                   pollVars, probeVars>>

NextAutoSell == SaveCopyTrade \/ AutoSellCopies

----------------------------------------------------------------------------
\* The poller (poller.py poll_traders, database.py seen_trades)

\* the transaction hashes of activities ("" when the field is missing) and
\* their timestamps
TxHashes == {"", "t1", "t2", "t3"}
FeedTimes == {1, 2}
Activities == [tx : TxHashes, timestamp : FeedTimes]

\* the addresses of the followed traders, as the traders table spells them
PolledTraders == {"0xA", "0xb"}

\* the answers of get_activity: up to MaxFeed activities, in the feed's order
Feeds == UNION {[1..n -> Activities] : n \in 0..MaxFeed}

\* a table in which no trade is ever found
never_seen(seen, address, tx) == FALSE

\* is_trade_seen
is_trade_seen(seen, address, tx) == <<AddressLower(address), tx>> \in seen

\* mark_trade_seen (INSERT OR IGNORE)
mark_trade_seen(seen, address, tx) == seen \cup {<<AddressLower(address), tx>>}

\* poll_traders' first loop: the activities not seen before are collected in
\* the feed's order, each marked seen as it is collected
RECURSIVE NewTrades(_, _, _)
NewTrades(seen, address, feed) ==
    IF feed = <<>> THEN [seen |-> seen, new |-> <<>>]
    ELSE LET act == Head(feed)
         IN  IF act.tx = "" \/ is_trade_seen(seen, address, act.tx)
             THEN NewTrades(seen, address, Tail(feed))
             ELSE LET rest == NewTrades(mark_trade_seen(seen, address, act.tx), address,
                                        Tail(feed))
                  IN  [seen |-> rest.seen, new |-> <<act>> \o rest.new]

\* a list with act put behind the last activity that is not later than it
RECURSIVE InsertByTimestamp(_, _)
InsertByTimestamp(sorted, act) ==
    IF sorted = <<>> THEN <<act>>
    ELSE IF sorted[Len(sorted)].timestamp <= act.timestamp THEN Append(sorted, act)
    ELSE Append(InsertByTimestamp(SubSeq(sorted, 1, Len(sorted) - 1), act),
                sorted[Len(sorted)])

\* sorted(new_trades, key=timestamp): a stable sort
RECURSIVE SortByTimestamp(_)
SortByTimestamp(new) ==
    IF new = <<>> THEN <<>>
    ELSE InsertByTimestamp(SortByTimestamp(SubSeq(new, 1, Len(new) - 1)), new[Len(new)])

\* One trader's part of a poll: raises_at is the position, among the new
\* trades in the order they are handled, of the one whose _send_notification
\* raises (0: none does); the except clause of the trader's try ends the loop
\* there.
poll_trader(seen, address, feed, raises_at) ==
    LET n == NewTrades(seen, address, feed)
        todo == SortByTimestamp(n.new)
        last == IF raises_at = 0 THEN Len(todo) ELSE Min(raises_at, Len(todo))
    IN  [seen |-> n.seen,
         calls |-> [i \in 1..last |-> Call("send_notification", todo[i].tx, todo[i].timestamp)]]

\* poll_traders: the activity of one trader is fetched and handled
PollTrader ==
    /\ polls < MaxPolls
    /\ polls' = polls + 1
    /\ \E address \in PolledTraders, feed \in Feeds :
       \E raises_at \in 0..Len(NewTrades(seen_trades, address, feed).new) :
          LET r == poll_trader(seen_trades, address, feed, raises_at)
          IN  /\ seen_trades' = r.seen
              /\ handled' = handled \o [i \in DOMAIN r.calls |->
                                           <<AddressLower(address), r.calls[i].a>>]
              /\ lastTick' = [h |-> "poll_traders",
                              pre |-> [address |-> address, feed |-> feed],
                              again |-> FALSE, calls |-> r.calls]
    /\ UNCHANGED <<now, restarts, orders, buy_attempted, db, sniperVars, adaptiveVars,
                   liqVars, mmVars, wtVars, wsVars, today, autocopy_daily, copy_orders,
                   copy_trades, probeVars>>

\* the book moves
NextGateway == GatewayFill \/ GatewayCancel

\* the process is restarted: memory is lost, the checkers load what was saved
Restart ==
    /\ Quiet
    /\ restarts < MaxRestarts
    /\ restarts' = restarts + 1
    /\ auto_snipers' = LoadSavedSnipers(db.sniper)
    /\ sessions' = [k \in Markets |-> Null]
    /\ bot_active' = AdaptiveLoadState(db.adaptive).active
    /\ bot_stats' = AdaptiveLoadState(db.adaptive).stats
    /\ adaptive_trade' = Null
    /\ liq_active' = ScalpLoadState(db.liq).active
    /\ liq_stats' = ScalpLoadState(db.liq).stats
    /\ liq_trade' = Null
    /\ liq_traded_slugs' = {}
    /\ liq_frame' = Null
    /\ mm_active' = ScalpLoadState(db.mm).active
    /\ mm_stats' = ScalpLoadState(db.mm).stats
    /\ mm_session' = Null
    /\ mm_traded_slugs' = {}
    /\ wt_active' = WeatherLoadState(db.weather).active
    /\ wt_stats' = WeatherLoadState(db.weather).stats
    /\ wt_positions' = WeatherLoadState(db.weather).positions
    /\ wt_market_cache' = Null
    /\ wt_forecast_cache' = [td \in WeatherDates |-> Null]
    /\ lastTick' = NoTick
    /\ ws_sniper' = LoadWeatherConfig(db.weather_sniper)
    /\ UNCHANGED <<now, orders, buy_attempted, db, copyVars, probeVars>>

----------------------------------------------------------------------------
\* The settlement checks applied on their own to a held and a declared label

\* the labels in the spellings a caller or the market API may use
MatchLabels ==
    {"Up", "UP", "up", "Down", "DOWN", "down", "Yes", "YES", "yes", "No", "NO", "no", "1", "0"}

\* a held and a declared label are given
InitMatches ==
    /\ InitProgram
    /\ probe \in [f : {"labels"}, held : MatchLabels, declared : MatchLabels]

\* each strategy's check is applied to them
ApplyMatches ==
    /\ probe.f = "labels"
    /\ probe' = [f |-> "matches", held |-> probe.held, declared |-> probe.declared,
                 sniper |-> check_win(probe.held, probe.declared),
                 adaptive |-> AdaptiveWon(probe.held, probe.declared),
                 weather |-> WeatherSniperWon(probe.declared)]
    /\ UNCHANGED <<now, restarts, orders, buy_attempted, lastTick, db, sniperVars, adaptiveVars,
                   liqVars, mmVars, wtVars, wsVars, copyVars>>

SpecMatches == InitMatches /\ [][ApplyMatches]_vars

----------------------------------------------------------------------------
\* The gateway's order arithmetic applied on its own.  Here a price is given
\* in tenths of a cent, so that rounding to the tick of one cent shows; no
\* price asked for lies halfway between two ticks.

\* the amounts asked for, in cents, and the prices asked for, in tenths of a cent
SizingAmounts == {100, 200, 500, 1000}
SizingPrices == {-10, 0, 3, 4, 6, 14, 16, 17, 200, 396, 400, 404, 500, 700, 850, 985, 994, 996, 997, 1000, 1010}

\* the sizes a sell is asked for, in hundredths of a share
SizingSizes == {118, 500}

\* round(price, 2), in cents
TickRound(price) == RoundDiv(price, 10)

\* place_limit_buy's size without the floor of 5 shares
OrderSizeUnfloored(amount, price) ==
    LET s1 == CeilDiv(amount * 1050, price)
    IN  IF s1 * price < MIN_NOTIONAL * 10 THEN CeilDiv(MIN_NOTIONAL * 10, price) ELSE s1

\* place_limit_buy's size for a price > 0: ceil(amount * 1.05 / price * 100) / 100
\* on the price as given, raised to a notional of 1.05 and then to 5 shares
OrderSize(amount, price) ==
    LET s1 == CeilDiv(amount * 1050, price)
        s2 == IF s1 * price < MIN_NOTIONAL * 10 THEN CeilDiv(MIN_NOTIONAL * 10, price) ELSE s1
    IN  IF s2 < MIN_SHARES THEN MIN_SHARES ELSE s2

\* the order place_limit_buy posts, or Null when it returns None: a price of 0
\* raises in the division, a rounded price outside (0, 1) is refused
LimitBuyArgs(amount, price) ==
    IF price = 0 THEN Null
    ELSE IF ~ValidPrice(TickRound(price)) THEN Null
    ELSE [price |-> TickRound(price), size |-> OrderSize(amount, price)]

\* the order place_limit_sell posts: price and size rounded, nothing refused
LimitSellArgs(price, size) == [price |-> TickRound(price), size |-> size]

\* an amount, a price and a size are given
InitSizing ==
    /\ InitProgram
    /\ probe \in [f : {"order"}, amount : SizingAmounts, price : SizingPrices, size : SizingSizes]

\* place_limit_buy is called with the amount and the price
ApplyLimitBuy ==
    /\ probe.f = "order"
    /\ probe' = [f |-> "place_limit_buy", amount |-> probe.amount, price |-> probe.price,
                 posted |-> LimitBuyArgs(probe.amount, probe.price)]
    /\ UNCHANGED <<now, restarts, orders, buy_attempted, lastTick, db, sniperVars, adaptiveVars,
                   liqVars, mmVars, wtVars, wsVars, copyVars>>

\* place_limit_sell is called with the price and the size
ApplyLimitSell ==
    /\ probe.f = "order"
    /\ probe' = [f |-> "place_limit_sell", price |-> probe.price, size |-> probe.size,
                 posted |-> LimitSellArgs(probe.price, probe.size)]
    /\ UNCHANGED <<now, restarts, orders, buy_attempted, lastTick, db, sniperVars, adaptiveVars,
                   liqVars, mmVars, wtVars, wsVars, copyVars>>

SpecSizing == InitSizing /\ [][ApplyLimitBuy \/ ApplyLimitSell]_vars

----------------------------------------------------------------------------
\* the sniper alone
SpecSniper == Init /\ [][Advance \/ NextGateway \/ Restart \/ NextSniper]_vars

\* the adaptive bot alone
SpecAdaptive == Init /\ [][Advance \/ NextGateway \/ Restart \/ NextAdaptive]_vars

\* the liquidity scalper alone
SpecLiq == Init /\ [][Advance \/ NextGateway \/ Restart \/ NextLiq]_vars

\* the market maker alone
SpecMM == Init /\ [][Advance \/ NextGateway \/ Restart \/ NextMM]_vars

\* the weather trader alone
SpecWeather == Init /\ [][Advance \/ NextGateway \/ Restart \/ NextWeather]_vars

\* the sniper and the adaptive bot, which hold a position to its resolution
SpecLate == Init /\ [][Advance \/ NextGateway \/ Restart \/ NextSniper \/ NextAdaptive]_vars

\* the liquidity scalper and the market maker, which exit before the close
SpecExits == Init /\ [][Advance \/ NextGateway \/ Restart \/ NextLiq \/ NextMM]_vars

\* Manual snipes under fair scheduling: the clock advances and
\* sniper_checker's loop runs _check_session on the active sessions at every
\* instant.  The clock stops at MaxTime, by when every deadline of the
\* markets that were sniped has passed.
SpecSnipesFair ==
    /\ Init
    /\ [][Advance \/ NextGateway \/ StartManualSnipe \/ SessionTick]_vars
    /\ WF_vars(Advance)
    /\ WF_vars(SessionTick)

\* the weather sniper alone
SpecWeatherSniper == Init /\ [][Advance \/ NextGateway \/ Restart \/ NextWeatherSniper]_vars

\* One iteration of sniper_checker's loop, in which a run may raise: the
\* auto-sniper and the sessions started by hand on the market of the current
\* and of the next window are run at one instant of the clock
SpecSniperIteration ==
    Init /\ [][\/ NextGateway \/ StartManualSnipe \/ StartManualSnipeAhead
               \/ NextSniper \/ AutoSniperTickRaises \/ SessionTickRaises]_vars

\* A session started by hand over the iterations of sniper_checker's loop, in
\* which a run may raise
SpecSnipesErrors ==
    Init /\ [][\/ Advance \/ NextGateway \/ StartManualSnipe
               \/ SessionTick \/ SessionTickRaises]_vars

\* The liquidity scalper with stop_liq run from another task while
\* _manage_liq_trade is suspended at an await
SpecLiqStop ==
    Init /\ [][\/ Advance \/ NextGateway \/ NextLiq
               \/ LiqManageSuspends \/ StopLiq \/ LiqManageResumes]_vars

\* The scalper and the MM bot in a process that has already traded as many
\* markets as their traded-slug sets hold
SpecLongRun == InitLongRun /\ [][Advance \/ NextGateway \/ NextLiq \/ NextMM]_vars

\* the poller alone
SpecPoller == Init /\ [][PollTrader]_vars

\* copy trades and their automatic sale
SpecAutoSell == Init /\ [][NextAutoSell]_vars

\* the autocopy handler alone
SpecAutocopy == Init /\ [][NextAutocopy]_vars

\* The weather sniper under fair scheduling: the clock advances and
\* weather_checker's loop runs _check_weather_sniper at every instant.  The
\* clock stops at MaxTime, past the close of the event.
SpecWeatherSniperFair ==
    /\ Init
    /\ [][Advance \/ NextGateway \/ NextWeatherSniper]_vars
    /\ WF_vars(Advance)
    /\ WF_vars(WeatherSniperTick)

Next ==
    \/ Advance
    \/ NextGateway
    \/ Restart
    \/ NextSniper
    \/ StartManualSnipe
    \/ NextAdaptive
    \/ NextLiq
    \/ NextMM
    \/ NextWeather
    \/ NextWeatherSniper
    \/ StartManualSnipeAhead
    \/ AutoSniperTickRaises
    \/ SessionTickRaises
    \/ NextAutocopy
    \/ NextAutoSell
    \/ PollTrader
    \/ LiqManageSuspends
    \/ StopLiq
    \/ LiqManageResumes

Spec == Init /\ [][Next]_vars

----------------------------------------------------------------------------
\* Properties

\* the handlers that open positions
EntryHandlers == {"run_auto_sniper", "run_cycle", "run_liq_cycle", "run_mm_cycle"}

\* the last run placed an entry order that the gateway took
Entered ==
    /\ lastTick.h \in EntryHandlers
    /\ \E i \in CallsTo("place_limit_buy") : lastTick.calls[i].r # "rejected"

\* C1: no double entry.  A run that places an entry order for a market found
\* no position of its strategy for that market: no session of the sniper, no
\* active trade of the adaptive, liquidity and MM bots.
C1_NoDoubleEntry == Entered => lastTick.pre = Null

\* C2: idempotent entry guard.  Once place_limit_buy has been called for a
\* market, no later run calls it again for that market, whatever became of
\* the first call.
C2_EntryAttemptedOnce == lastTick.h # "none" => ~lastTick.again

\* C3: no re-entry after a restart.  No market has two entry orders of which
\* one was placed before a restart and the other after it.
C3_NoReentryAfterRestart ==
    \A i, j \in Buys(orders) :
        orders[i].mkt = orders[j].mkt => orders[i].epoch = orders[j].epoch

\* the calls in a run's list that went to f
Called(calls, f) == {i \in DOMAIN calls : calls[i].f = f}

\* the last run called cancel_order exactly once for order oid
CancelledOnce(oid) ==
    Cardinality({i \in CallsTo("cancel_order") : lastTick.calls[i].a = oid}) = 1

\* C4: fill-price anchoring.  The stop and the target of a filled liquidity
\* trade stand at the distances the setup fixed (requested entry less stop,
\* target less requested entry) from the price at which the entry filled, not
\* from the requested entry price.
C4_FillPriceAnchoring ==
    (liq_trade # Null /\ liq_trade.buy_status = "matched") =>
        LET t == liq_trade
            fill == orders[t.buy_order_id].fill
        IN  /\ t.stop_price = fill - (t.buy_price - t.stop_price)
            /\ t.exit_price = fill + (t.exit_price - t.buy_price)

\* the entry legs of an MM session that the book has not filled
MMUnfilledLegs(s) ==
    {i \in {s.yes_buy_order, s.no_buy_order} : orders[i].st # "matched"}

\* C5: deadline determinism.  A run that finds its position's entry order
\* unfilled past the entry timeout (liquidity scalper 60 s, MM 30 s, weather
\* trader 300 s) clears the position and calls cancel_order exactly once for
\* each unfilled entry order.
C5_EntryTimeoutAborts ==
    LET pre == lastTick.pre
    IN  /\ (/\ lastTick.h = "manage_liq_trade"
            /\ pre.buy_status = "live"
            /\ orders[pre.buy_order_id].st # "matched"
            /\ now - pre.entered_at > 60)
           => (liq_trade = Null /\ CancelledOnce(pre.buy_order_id))
        /\ (/\ lastTick.h = "manage_session"
            /\ pre.phase = "buying"
            /\ MMUnfilledLegs(pre) # {}
            /\ now - pre.entered_at > 30)
           => (mm_session = Null /\ \A i \in MMUnfilledLegs(pre) : CancelledOnce(i))
        /\ (/\ lastTick.h = "trade_city"
            /\ pre # Null
            /\ ~pre.filled
            /\ pre.order_id # 0
            /\ orders[pre.order_id].st # "matched"
            /\ now - pre.last_check >= 4
            /\ now - pre.entered_at > 300)
           => (/\ wt_positions = Null \/ wt_positions.order_id # pre.order_id
               /\ CancelledOnce(pre.order_id))

\* C6: no entry order is live at or after its market's close.  After a run
\* of the sniper or the adaptive bot at or after the close, in which no cancel
\* failed, the entry order of the position it looked at is no longer live.
C6_NoLiveEntryAtClose ==
    LET pre == lastTick.pre
    IN  (/\ lastTick.h \in {"check_session", "run_cycle"}
         /\ pre # Null
         /\ pre.order_status = "live"
         /\ now >= pre.market_end_ts
         /\ \A i \in CallsTo("cancel_order") : lastTick.calls[i].r = "ok")
        => orders[pre.order_id].st # "live"

\* an exit order of a liquidity trade that the book has filled
LiqExitFilled(t) ==
    \/ t.sell_order_id # 0 /\ orders[t.sell_order_id].st = "matched"
    \/ t.stop_order_id # 0 /\ orders[t.stop_order_id].st = "matched"

\* C7: emergency close takes precedence.  A run that finds a filled position
\* with no filled exit order 60 seconds or less before the close calls
\* cancel_order for every live exit order, calls place_market_sell and closes
\* the position, whatever else is enabled in that run.
C7_EmergencyClose ==
    LET pre == lastTick.pre
    IN  /\ (/\ lastTick.h = "manage_liq_trade"
            /\ pre.buy_status = "matched"
            /\ ~LiqExitFilled(pre)
            /\ pre.market_end_ts - now <= 60)
           => (/\ liq_trade = Null
               /\ CallsTo("place_market_sell") # {}
               /\ \A k \in DOMAIN LiqLiveExits(pre) :
                     \E i \in CallsTo("cancel_order") : lastTick.calls[i].a = LiqLiveExits(pre)[k])
        /\ (/\ lastTick.h = "manage_session"
            /\ pre.phase = "monitoring"
            /\ pre.market_end_ts - now <= 60)
           => mm_session = Null

\* every market sell of the last run came after a limit sell that the gateway
\* refused in that run, or 60 seconds or less before the close
MarketSellsEscalated ==
    \A i \in CallsTo("place_market_sell") :
        \/ \E j \in CallsTo("place_limit_sell") : j < i /\ lastTick.calls[j].r = "rejected"
        \/ lastTick.pre.market_end_ts - now <= 60

\* C8 as claimed: in every strategy an exit is first attempted as a limit
\* sell, and a market sell follows only a refused limit sell or the hard
\* deadline before the close.
C8_LimitExitFirst ==
    (\/ lastTick.h \in {"manage_liq_trade", "check_session"}
     \/ lastTick.h = "manage_session" /\ lastTick.pre.phase = "monitoring")
    => MarketSellsEscalated

\* C8, amended: in the liquidity scalper an exit is first attempted as a limit
\* sell, and a market sell follows only a limit sell refused in that run or
\* the deadline of 60 seconds before the close.
C8_LiqLimitExitFirst == lastTick.h = "manage_liq_trade" => MarketSellsEscalated

\* the scalper's stop-loss, more than 60 seconds before the close, ended in a
\* market sell after its limit sell was refused
C8_Witness ==
    /\ lastTick.h = "manage_liq_trade"
    /\ lastTick.pre.sell_order_id # 0
    /\ lastTick.pre.market_end_ts - now > 60
    /\ CallsTo("place_market_sell") # {}

\* the declared outcome a run was given by the market API, as a set
Declared(calls) ==
    {l \in Labels : \E i \in DOMAIN calls :
        /\ calls[i].f \in {"fetch_market_by_condition", "fetch_market_by_slug"}
        /\ calls[i].r = "closed:" \o l}

\* a step is a run of handler h on a position that was filled before it
RunOnFilled(h) ==
    /\ lastTick' # lastTick
    /\ lastTick'.h = h
    /\ lastTick'.pre # Null
    /\ lastTick'.pre.order_status = "matched"

\* C9: authoritative first.  A run on a filled position to which the market
\* API reports the market closed with a declared outcome records a win when
\* the held outcome matches the declared one and a loss when it does not.
C9_AuthoritativeFirst ==
    [][/\ RunOnFilled("run_cycle") =>
            \A l \in Declared(lastTick'.calls) :
                /\ adaptive_trade' = Null
                /\ bot_stats'.wins - bot_stats.wins
                     = (IF check_win(adaptive_trade.direction, l) THEN 1 ELSE 0)
                /\ bot_stats'.losses - bot_stats.losses
                     = (IF check_win(adaptive_trade.direction, l) THEN 0 ELSE 1)
       /\ (RunOnFilled("check_session") /\ Called(lastTick'.calls, "place_market_sell") = {}) =>
            \A l \in Declared(lastTick'.calls) :
                /\ sessions'[lastTick'.pre.condition_id] = Null
                /\ auto_snipers'.wins - auto_snipers.wins
                     = (IF check_win(lastTick'.pre.outcome, l) THEN 1 ELSE 0)
                /\ auto_snipers'.losses - auto_snipers.losses
                     = (IF check_win(lastTick'.pre.outcome, l) THEN 0 ELSE 1)]_vars

\* the market API gave the run a resolution
ApiResolved(calls) ==
    \E i \in DOMAIN calls :
        /\ calls[i].f \in {"fetch_market_by_condition", "fetch_market_by_slug"}
        /\ calls[i].r # "none"

\* a run past the close consulted the BTC candle only without a resolution
\* from the market API and more than 120 seconds after the close
FallbackOnlyAfterGrace(h) ==
    (RunOnFilled(h) /\ Called(lastTick'.calls, "btc_kline") # {})
    => (~ApiResolved(lastTick'.calls) /\ now - lastTick'.pre.market_end_ts > 120)

\* a step is a run of h on a filled position after the close and within the
\* grace period, with no resolution from the market API
RunInGrace(h) ==
    /\ RunOnFilled(h)
    /\ now > lastTick'.pre.market_end_ts
    /\ now - lastTick'.pre.market_end_ts <= 120
    /\ ~ApiResolved(lastTick'.calls)

\* the step leaves the positions and the statistics of both bots as they were
Unsettled ==
    /\ sessions' = sessions
    /\ auto_snipers' = auto_snipers
    /\ adaptive_trade' = adaptive_trade
    /\ bot_stats' = bot_stats

Logged(calls) ==
    {calls[i].r : i \in {j \in DOMAIN calls : calls[j].f \in {"log_trade_to_sheets", "log_to_sheets"}}}

\* a run settled its position although neither the market API nor the BTC
\* candle gave it an outcome and it sold nothing: a forced resolution
ForcedCalls(calls) ==
    /\ Logged(calls) # {}
    /\ ~ApiResolved(calls)
    /\ \A i \in Called(calls, "btc_kline") : calls[i].r = "none"
    /\ Called(calls, "place_market_sell") = {}

\* C11: forced resolution.  A run of the sniper or of the adaptive bot that
\* settles a filled position without an outcome from the market API or the
\* BTC candle does so more than 600 seconds after the close, and books a win
\* with pnl = shares - cost.
C11_ForcedResolution ==
    [][/\ (RunOnFilled("check_session") /\ ForcedCalls(lastTick'.calls)) =>
            LET pre == lastTick'.pre
            IN  /\ now - pre.market_end_ts > 600
                /\ auto_snipers'.wins = auto_snipers.wins + 1
                /\ auto_snipers'.losses = auto_snipers.losses
                /\ auto_snipers'.total_pnl - auto_snipers.total_pnl
                     = pre.total_shares * 100 - pre.total_spent
       /\ (RunOnFilled("run_cycle") /\ ForcedCalls(lastTick'.calls)) =>
            LET pre == lastTick'.pre
            IN  /\ now - pre.market_end_ts > 600
                /\ bot_stats'.wins = bot_stats.wins + 1
                /\ bot_stats'.losses = bot_stats.losses
                /\ bot_stats'.total_pnl - bot_stats.total_pnl = pre.shares * 100 - pre.cost]_vars

\* the result values under which a resolution by the market API is logged
AuthoritativeResults == {"WIN", "LOSS"}

\* C12: a forced resolution is surfaced distinctly.  A run that settles a
\* position by forced resolution logs a result value that no resolution by
\* the market API is logged under.
C12_ForcedSurfacedDistinctly ==
    (lastTick.h \in {"check_session", "run_cycle"} /\ ForcedCalls(lastTick.calls))
    => Logged(lastTick.calls) \cap AuthoritativeResults = {}

\* the labels of the polarity of Up, in any case
PositiveLabels == {"Up", "UP", "up", "Yes", "YES", "yes", "1"}

\* C13: win/loss determination.  For every held and declared label the
\* sniper's _check_win, the adaptive bot's check and (for a held label of the
\* Yes polarity, the side the weather sniper buys) the weather sniper's check
\* answer win exactly when the two labels have the same polarity, Up/Yes/1
\* against Down/No/0, whatever their case.
C13_MatchesNormalised ==
    probe.f = "matches" =>
        LET same == (probe.held \in PositiveLabels) = (probe.declared \in PositiveLabels)
        IN  /\ probe.sniper = same
            /\ probe.adaptive = same
            /\ probe.held \in PositiveLabels => probe.weather = same

\* place_limit_buy posted an order for a price inside (0, 1)
BuyPosted == probe.f = "place_limit_buy" /\ probe.posted # Null

\* the posted price is the asked price rounded to the tick of one cent
PriceOnTick ==
    /\ 10 * probe.posted.price - probe.price <= 5
    /\ probe.price - 10 * probe.posted.price <= 5

C16_InvalidPriceNeverPosted ==
    (probe.f \in {"place_limit_buy", "place_limit_sell"} /\ ~ValidPrice(TickRound(probe.price)))
    => probe.posted = Null

\* a step is a run of h that resolves a position filled before it as a win or
\* as a loss
Settled(h) == RunOnFilled(h) /\ Logged(lastTick'.calls) \cap AuthoritativeResults # {}

\* shares pay 1.00 each when the outcome won and nothing otherwise
PayoutPnl(result, shares, cost) == IF result = "WIN" THEN shares * 100 - cost ELSE 0 - cost

FillRecorded(pos) == (pos.order_status = "matched") <=> (pos.mid_at_fill > 0)

\* C17: a sniper session and the adaptive bot's trade have a positive
\* mid_at_fill if and only if their order status is "matched".
C17_FillPriceIffFilled ==
    /\ \A k \in Markets : sessions[k] # Null => FillRecorded(sessions[k])
    /\ adaptive_trade # Null => FillRecorded(adaptive_trade)

\* the last run asked for an order's status and got none
StatusUnknown == \E i \in CallsTo("check_order_status") : lastTick.calls[i].r = "none"

\* C18: a failed gateway call is treated as unknown.  A run of the liquidity
\* scalper whose order-status query comes back without a status leaves the
\* trade as it found it.
C18_FailedCallIsUnknown ==
    (lastTick.h = "manage_liq_trade" /\ StatusUnknown) => liq_trade = lastTick.pre

\* C19: no sniper session waits forever.  With the clock advancing and the
\* checker running, every session, started by the auto-sniper or by hand and
\* whatever its event slug, is eventually removed.
C19_EverySessionEnds ==
    \A k \in Markets : (sessions[k] # Null) ~> (sessions[k] = Null)

\* C20: no weather sniper waits forever.  With the clock advancing and the
\* checker running, every weather sniper is eventually resolved or removed,
\* also one whose order never fills and one whose event closes with no
\* filled outcome.
C20_EveryWeatherSniperEnds ==
    (ws_sniper # Null) ~> (ws_sniper = Null \/ ws_sniper.resolved)

\* a weather sniper whose order was seen filled before the clock stops is
\* removed once the event has closed
FilledWeatherSniperEnds ==
    (ws_sniper # Null /\ ws_sniper.filled_outcome # 0 /\ now < MaxTime) ~> (ws_sniper = Null)

\* the aggregate counters of a strategy: the auto-sniper's, the adaptive bot's
SniperCounters(a) == <<a.wins, a.losses, a.total_pnl, a.total_trades>>

\* a session of the sniper reaches a terminal state in the step: it is removed
\* or deactivated
SessionEnds ==
    \E k \in Markets :
        /\ sessions[k] # Null
        /\ sessions'[k] = Null \/ (sessions[k].active /\ ~sessions'[k].active)

\* C21: the counters wins, losses, total_pnl and total_trades of the
\* auto-sniper change only in a step in which one of its sessions reaches a
\* terminal state, and wins, losses and total_trades never decrease.
C21_CountersOnlyAtTerminal ==
    [][(auto_snipers # Null /\ auto_snipers' # Null) =>
          /\ SniperCounters(auto_snipers') # SniperCounters(auto_snipers) => SessionEnds
          /\ auto_snipers'.wins >= auto_snipers.wins
          /\ auto_snipers'.losses >= auto_snipers.losses
          /\ auto_snipers'.total_trades >= auto_snipers.total_trades]_vars

\* the step is a restart of the process
Restarted == restarts' # restarts

\* C22: the persisted snapshot contains all non-terminal positions with their
\* order ids and the current statistics: after a restart every session, every
\* adaptive trade and every scalper trade that was open before it is tracked
\* again with its orders, and the statistics are those before it.
C22_SnapshotKeepsPositions ==
    [][Restarted =>
          /\ \A k \in Markets :
                (sessions[k] # Null /\ sessions[k].active) =>
                    /\ sessions'[k] # Null
                    /\ sessions'[k].order_id = sessions[k].order_id
          /\ adaptive_trade # Null =>
                /\ adaptive_trade' # Null
                /\ adaptive_trade'.order_id = adaptive_trade.order_id
          /\ liq_trade # Null =>
                /\ liq_trade' # Null
                /\ liq_trade'.buy_order_id = liq_trade.buy_order_id
          /\ (auto_snipers # Null /\ auto_snipers.active) =>
                /\ auto_snipers' # Null
                /\ SniperCounters(auto_snipers') = SniperCounters(auto_snipers)
          /\ SniperCounters(bot_stats') = SniperCounters(bot_stats)]_vars

\* the weather sniper holds an order placed before the last restart, and its
\* checker has run on it since and had the gateway's answer
WSRecovered ==
    /\ lastTick.h = "check_weather_sniper"
    /\ \E i \in CallsTo("check_order_status") : lastTick.calls[i].r # "none"
    /\ ws_sniper # Null
    /\ ws_sniper.order_id # 0
    /\ orders[ws_sniper.order_id].epoch < restarts

\* C23: idempotent recovery.  Once ticking has resumed after a reload, the
\* status of a recovered position is the gateway's current answer and not the
\* stored one: an order stored as live that the gateway no longer holds live
\* is not kept as live.
C23_RecoveredStatusFromGateway ==
    (WSRecovered /\ ws_sniper.order_status = "live") =>
        orders[ws_sniper.order_id].st = "live"

\* the step is a run that raised
RaisedStep ==
    /\ lastTick' # lastTick
    /\ lastTick'.h # "none"
    /\ \E i \in DOMAIN lastTick'.calls : lastTick'.calls[i].f = "raise"

\* the market of the session a raising run was on; 0 for a run of the
\* auto-sniper
RaisedOn(tick) == tick.calls[1].a

C25_ErrorsNeverRemove ==
    [][RaisedStep =>
          \A k \in Markets :
              (/\ k = RaisedOn(lastTick')
               /\ sessions[k] # Null
               /\ sessions[k].order_status \in {"live", "matched"})
                  => (sessions'[k] # Null /\ sessions'[k].active)]_vars

\* the session or the trade the last run was on is gone
PositionGone ==
    \/ /\ lastTick.h = "check_session"
       /\ sessions[lastTick.pre.condition_id] = Null
    \/ /\ lastTick.h = "run_cycle"
       /\ lastTick.pre # Null
       /\ adaptive_trade = Null

\* the last run ended its position without a result: the order was reported
\* cancelled or expired, or was given up unfilled
Aborted ==
    /\ PositionGone
    /\ Logged(lastTick.calls) = {}
    /\ \A i \in DOMAIN lastTick.calls : lastTick.calls[i].f # "raise"

\* C26: every transition of a position to an unsuccessful terminal state
\* emits a notification.  A run of the sniper or of the adaptive bot that ends
\* its position without a result sends one.
C26_UnsuccessfulEndNotified == Aborted => CallsTo("notify") # {}

\* the buys the gateway took from the autocopy handler for trades of $50 or
\* more of trader t on date d
BigCopies(t, d) ==
    {i \in DOMAIN copy_orders :
        /\ copy_orders[i].trader = t
        /\ copy_orders[i].date = d
        /\ copy_orders[i].usdc >= 5000}

\* C27: daily large-trade cap.  For each tracked trader and date at most one
\* autocopy buy is placed for the trader's trades of $50 or more, and the
\* counter of the trader and the date counts these buys.
C27_DailyBigTradeCap ==
    \A t \in Traders, d \in Dates :
        /\ Cardinality(BigCopies(t, d)) <= 1
        /\ autocopy_daily[t, d] = Cardinality(BigCopies(t, d))

\* a trade of $50 or more made on a day on which the counter stands at one
\* or more is skipped without an order
BigTradeSkippedAfterCount ==
    (/\ lastTick.h = "handle_autocopy_buy"
     /\ lastTick.pre.usdc >= 5000
     /\ lastTick.pre.count >= 1) => CallsTo("place_limit_buy") = {}

\* at most one buy for trades of $50 or more per trader and date
AtMostOneBigCopy == \A t \in Traders, d \in Dates : Cardinality(BigCopies(t, d)) <= 1

\* the step is the suspended run of the scalper going on after stop_liq has
\* returned
ResumedAfterStop ==
    /\ liq_frame # Null
    /\ liq_frame' = Null
    /\ ~liq_active
    /\ liq_trade = Null

\* C28: a position is touched only by its owning tick.  The run of the
\* scalper that goes on after stop_liq has returned places no order for the
\* stopped trade and leaves the statistics as they are.
C28_NoOrderAfterStop ==
    [][ResumedAfterStop => (Len(orders') = Len(orders) /\ liq_stats' = liq_stats)]_vars

\* C29: once the scalper or the MM bot has marked a market as traded it
\* submits no further entry for it, however many markets were traded before:
\* no entry cycle calls place_limit_buy for a market for which an entry was
\* submitted earlier.
C29_MarkedSlugNeverReentered ==
    lastTick.h \in {"run_liq_cycle", "run_mm_cycle"} => ~lastTick.again

\* the last run of _trade_city started from a position whose switch sell was
\* still live at the gateway
SwitchPending ==
    /\ lastTick.h = "trade_city"
    /\ lastTick.pre # Null
    /\ lastTick.pre.switching
    /\ orders[lastTick.pre.order_id].st = "live"

\* C30: the switch protocol of the weather trader.  After a forecast change
\* on a filled position one sell order is placed; while that sell is pending
\* a run of _trade_city checks its status and places neither a further sell
\* nor a buy for the new outcome.
C30_OneSwitchSell ==
    SwitchPending => (CallsTo("place_limit_sell") = {} /\ CallsTo("place_limit_buy") = {})

\* the last run of _manage_liq_trade started from a trade whose stop order
\* was live at the gateway
StopOrderLive ==
    /\ lastTick.h = "manage_liq_trade"
    /\ lastTick.pre # Null
    /\ lastTick.pre.stop_order_id # 0
    /\ orders[lastTick.pre.stop_order_id].st = "live"

\* C31: a trade of the liquidity scalper has at most one live sell-side
\* order.  Once its stop order is placed and live, a run of _manage_liq_trade
\* places no further sell order: neither the cancelled target again nor a
\* second stop.
C31_OneLiveExitOrder == StopOrderLive => CallsTo("place_limit_sell") = {}

\* C32: the total_shares a filled sniper session records, the amount sold at
\* a stop-loss and used for the PnL, is the size of the entry order that
\* place_limit_buy submitted.
C32_SharesAreOrderSize ==
    \A k \in Markets :
        (sessions[k] # Null /\ sessions[k].order_status = "matched")
            => sessions[k].total_shares = orders[sessions[k].order_id].size

\* the last run of _check_session called place_market_sell and the gateway
\* refused the sell
StopLossSellFailed ==
    /\ lastTick.h = "check_session"
    /\ \E i \in CallsTo("place_market_sell") : lastTick.calls[i].r = OkFail(FALSE)

\* C33: a stop-loss closes a sniper session only if the market sell was
\* accepted.  After a refused place_market_sell the session is still tracked,
\* so that a later tick retries the exit.
C33_FailedSellKeepsSession ==
    StopLossSellFailed => sessions[lastTick.pre.condition_id] # Null

\* C34: the outcome of a session is credited to the auto-sniper that opened
\* it, and the outcome of a session started by hand to none: an auto-sniper
\* that has opened no session (total_trades = 0) has no win, no loss and no
\* PnL.
C34_CreditOnlyToOpener ==
    (auto_snipers # Null /\ auto_snipers.total_trades = 0)
        => (auto_snipers.wins = 0 /\ auto_snipers.losses = 0 /\ auto_snipers.total_pnl = 0)

\* the statistics of a scalping bot count every closed trade once
ScalpBalanced(stats) == stats.total_trades = stats.wins + stats.losses + stats.breakeven

\* the statistics of the liquidity scalper, the MM bot and the adaptive bot
\* count every closed trade once
BotsBalanced ==
    /\ ScalpBalanced(liq_stats)
    /\ ScalpBalanced(mm_stats)
    /\ bot_stats.total_trades = bot_stats.wins + bot_stats.losses

\* C35: starting from zeroed statistics each closed trade is counted exactly
\* once: total_trades = wins + losses + breakeven for the liquidity and the
\* MM bot, total_trades = wins + losses for the adaptive bot, and
\* wins + losses <= total_trades for the auto-sniper.
C35_StatsBalanced ==
    /\ BotsBalanced
    /\ auto_snipers # Null
         => auto_snipers.wins + auto_snipers.losses <= auto_snipers.total_trades

\* C36: registering a session never replaces an existing session of the
\* same condition id: as long as a market has a session, the order that
\* session tracks stays the same, so no tracked order is dropped from
\* _sessions.
C36_SessionNeverReplaced ==
    [][\A k \in Markets :
          (sessions[k] # Null /\ sessions'[k] # Null)
              => sessions'[k].order_id = sessions[k].order_id]_vars

\* the rows of the key the last _auto_sell_copies was run for
SoldKey ==
    {i \in DOMAIN lastTick.pre.rows :
        /\ lastTick.pre.rows[i].trader_address = AddressLower(lastTick.pre.address)
        /\ lastTick.pre.rows[i].condition_id = lastTick.pre.condition_id
        /\ lastTick.pre.rows[i].outcome = lastTick.pre.outcome}

\* place_market_sell was called once for row i by the last run, and accepted
SoldOnce(i, answer) ==
    /\ Cardinality({k \in CallsTo("place_market_sell") : lastTick.calls[k].a = i}) = 1
    /\ \A k \in CallsTo("place_market_sell") :
          lastTick.calls[k].a = i => lastTick.calls[k].r = answer

\* row i was closed by the last run with the proceeds of an accepted sell
ClosedSold(i) ==
    /\ SoldOnce(i, "ok")
    /\ copy_trades[i].sell_usdc = copy_trades[i].shares * lastTick.pre.sell_price
    /\ copy_trades[i].pnl_usdc = copy_trades[i].sell_usdc - copy_trades[i].usdc_spent

\* row i was closed by the last run as a total loss after a refused sell
ClosedLost(i) ==
    /\ SoldOnce(i, "fail")
    /\ copy_trades[i].sell_usdc = 0
    /\ copy_trades[i].pnl_usdc = 0 - copy_trades[i].usdc_spent
    /\ copy_trades[i].pnl_pct = 0 - 100

\* C37: when a SELL or REDEEM of a tracked trader is processed, every OPEN
\* copy trade of that trader, market and outcome is closed exactly once, with
\* pnl = shares x sell price - invested after an accepted sell and with no
\* proceeds and pnl = -invested (-100%) after a refused one; none stays OPEN,
\* and a copy trade that was closed before is neither sold nor changed.
C37_OpenCopiesClosedOnce ==
    lastTick.h = "auto_sell_copies" =>
        \A i \in SoldKey :
            /\ copy_trades[i].status # "OPEN"
            /\ lastTick.pre.rows[i].status = "OPEN" =>
                  /\ copy_trades[i].status = "CLOSED"
                  /\ Cardinality({k \in CallsTo("close_copy_trade") : lastTick.calls[k].a = i}) = 1
                  /\ ClosedSold(i) \/ ClosedLost(i)
            /\ lastTick.pre.rows[i].status # "OPEN" =>
                  /\ copy_trades[i] = lastTick.pre.rows[i]
                  /\ \A k \in DOMAIN lastTick.calls : lastTick.calls[k].a # i

\* a run of _auto_sell_copies that found a closed copy trade, sold one copy
\* and failed to sell another
C37_Witness ==
    /\ lastTick.h = "auto_sell_copies"
    /\ \E i, j, k \in SoldKey :
          /\ lastTick.pre.rows[i].status = "CLOSED"
          /\ lastTick.pre.rows[j].status = "OPEN" /\ ClosedSold(j)
          /\ lastTick.pre.rows[k].status = "OPEN" /\ ClosedLost(k)

\* C38: across the polls each activity, identified by trader address and
\* transaction hash, is passed to the handler at most once; it is marked seen
\* before it is handled, so one whose handling raised is not handled again;
\* and the new activities of one poll are handled in non-decreasing order of
\* their timestamps.
C38_HandledOnceInOrder ==
    /\ \A i, j \in DOMAIN handled : handled[i] = handled[j] => i = j
    /\ \A i \in DOMAIN handled : handled[i] \in seen_trades
    /\ lastTick.h = "poll_traders" =>
          \A i, j \in DOMAIN lastTick.calls :
              i < j => lastTick.calls[i].r <= lastTick.calls[j].r

\* a second poll that finds an activity handled before, and handles two new
\* ones which the feed lists with the later one first
C38_Witness ==
    /\ lastTick.h = "poll_traders"
    /\ polls = 2
    /\ Len(lastTick.calls) = 2
    /\ lastTick.calls[1].r < lastTick.calls[2].r
    /\ \E i, j, k \in DOMAIN lastTick.pre.feed :
          /\ i < j
          /\ lastTick.pre.feed[i].tx = lastTick.calls[2].a
          /\ lastTick.pre.feed[j].tx = lastTick.calls[1].a
          /\ \E h \in 1..(Len(handled) - 2) :
                 handled[h] = <<AddressLower(lastTick.pre.address), lastTick.pre.feed[k].tx>>

\* the MM bot gave up an entry in the last tick: the NO buy was refused after
\* the YES buy was placed, or the buying phase timed out
MMGaveUp ==
    \/ lastTick.h = "run_mm_cycle" /\ Len(lastTick.calls) = 3
    \/ /\ lastTick.h = "manage_session"
       /\ lastTick.pre.phase = "buying"
       /\ CallsTo("cancel_order") \cup CallsTo("place_market_sell") # {}

\* C39: the MM bot never stays exposed to a single leg: when the NO buy fails
\* after the YES buy was placed, or when the buying phase times out, the tick
\* leaves no session and none of the legs it set out to cancel resting at the
\* exchange.
C39_NoSingleLegLeft ==
    MMGaveUp =>
        /\ mm_session = Null
        /\ \A c \in CallsTo("cancel_order") : orders[lastTick.calls[c].a].st # "live"

====
